---------------------------- MODULE Spec2Model ----------------------------
(***************************************************************************)
(* Verification model of the consent-injection / cookie-capture harness.   *)
(*                                                                         *)
(* Two variants of the chromedp runner are in the repository:              *)
(*   src/unnamed/part_001  the refactored runner (updateCookieList, named  *)
(*                         timeouts): definitions carry the source names;  *)
(*   src/unnamed/part_000  the earlier runner with the upsert written      *)
(*                         inline in the OnResponse callback: definitions  *)
(*                         carry the suffix _p0.                           *)
(*                                                                         *)
(* Specifications:                                                         *)
(*   Spec         main of part_001: the batch loop, the checkpoint file,   *)
(*                the output file, crash and restart;                      *)
(*   SpecStore    one call of run of part_001: the response callbacks, the *)
(*                request callback and the goroutine of run itself, acting *)
(*                on the shared cookie slice;                              *)
(*   SpecStore_p0 the same for the OnResponse callback of part_000;        *)
(*   SpecExpired  isCookieExpired of both variants on bounded inputs;      *)
(*   SpecProgress saveProgress and loadProgress on bounded files;          *)
(*   SpecRequest  the OnRequest callback;                                  *)
(*   SpecSession  the listener of run and the task list of runChromedp     *)
(*                (SpecSessionLive, SpecSessionTimed: with fairness;       *)
(*                SpecSession_p0: setConsent of part_000);                 *)
(*   SpecRows     the row loop of main on longer cookie lists;             *)
(*   SpecDerived  the columns StringsEqual and Status Updated;             *)
(*   SpecMetadata the consent metadata read from the ping, also in the     *)
(*                selenium runner src/unnamed/part_002 (suffix _p2);       *)
(*   SpecBatch    the proxy, browser and cookie slice of each domain;      *)
(*   SpecUpsert   updateCookieList on its own (SpecUpsert_p0: the inline   *)
(*                upsert of part_000);                                     *)
(*   SpecVisits   main of part_001 with runs that fail or panic;           *)
(*   SpecWriteRow writeRow of the selenium runner;                         *)
(*   SpecSelenium the driver sessions of the selenium runner;              *)
(*   SpecDomainMatch  domainMatches of the cookie classifier               *)
(*                (cross-reference-gvl/reference-gvl.go);                  *)
(*   SpecClassifier   main of the cookie classifier and its result files.  *)
(*                                                                         *)
(* Strings the program parses, formats or searches (the checkpoint file,   *)
(* hosts and URLs) are sequences of one-character strings; names that are  *)
(* only compared for equality are TLA+ strings.  Instants are integers,    *)
(* ZeroTime being Go's zero time.Time.                                     *)
(***************************************************************************)
EXTENDS Integers, Sequences, FiniteSets, TLC

VARIABLES
    \* ---- one call of run (SpecStore, SpecStore_p0)
    cookies,      \* var cookies []*http.Cookie: the entries, in slice order
    mu,           \* sync.Mutex: 0 when free, else the goroutine holding it
    wg,           \* sync.WaitGroup counter
    cb,           \* the OnResponse callbacks: id -> [pc, newCookie, found, index]
    nSetCookies,      \* number of Set-Cookie headers handed to the callbacks so far
    runPc,        \* position of the goroutine executing run
    retCookies,   \* the slice value evaluated by run's return statement
    attached,     \* cookies the last OnRequest call added to its request
    upserts,      \* history: per identity, the cookie of the most recent upsert
    \* ---- the OnRequest callback on bounded inputs (SpecRequest)
    reqHost,      \* req.URL.Host of the request handed to the callback, <<>> before
    \* ---- one browser session: net.Listen and runChromedp (SpecSession)
    sPc,          \* position of run: listen, deferClose, tasks, returned, panic
    listener,     \* the listener net.Listen returned: unset, nil or bound
    task,         \* index in Tasks of the task chromedp.Run is at
    phase,        \* position inside the task
    wait,         \* waitForTcfApi: [isApiReady, cmpId, elapsed, probed]
    consent,      \* setConsent: [cmpId, cmpVer, gvlVer, built, stored]
    ctxDone,      \* timeoutCtx has expired
    page,         \* the site: "cmp" when it loads a consent platform, else "noCmp"
    api,          \* window.__tcfapi in the current document: none, defined, ready
    started,      \* history: the tasks started, in order
    runErr,       \* the error chromedp.Run returned: none, command or script
    reads,        \* eventStatusBeforeRL, apiTcString, eventStatusAfterRL
    \* ---- the derived fields of a row (SpecDerived)
    runResult,    \* the four strings run returned: tcString, apiTcString, event statuses
    rowFlags,     \* the columns StringsEqual and Status Updated main wrote for them
    \* ---- the consent metadata, in the three variants (SpecMetadata)
    ping,         \* the PingReturn of the page: [cmpId, cmpVersion, gvlVersion]
    tcData,       \* the CoreString fields built from it: [variant, CmpId, CmpVersion, VendorListVersion]
    \* ---- the proxies and browsers of a batch (SpecBatch)
    proxies,      \* per domain index, the proxy of its run: none, listening, closed
    browsers,     \* per domain index, the browser of its context: none, alive, closed
    stores,       \* per domain index, the cookies slice of its call of run
    \* ---- domainMatches of the cookie classifier (SpecDomainMatch)
    cookieDomain, \* the first argument, a string
    vendorDomain, \* the second argument, a string
    domainMatched, \* [called, value]: the value returned, once it was called
    \* ---- isCookieExpired (SpecExpired)
    expCookie,    \* the argument (NilCookie for a nil pointer)
    now,          \* the clock: what time.Now() returns
    expResult,    \* [variant, value] once the function returned
    \* ---- main (Spec)
    fileHandle,   \* file of main, the output file: unset, open, or nil after a failed open
    domains,      \* number of records of the domain list; record i is domain i
    progressFile, \* progress.txt: [exists, data]
    outFile,      \* the rows durable in the output file
    wbuf,         \* rows written to the csv.Writer and not flushed yet
    pc,           \* position of main
    index,        \* loop variable of the domain loop
    lastProcessedIndex,
    runCookies,   \* the cookie list run returned for the current domain
    ci,           \* number of cookies of runCookies the row loop has handled
    runNo,        \* history: number of the current process run (1, 2, ...)
    processed,    \* history: indices handed to run in this process run
    saved,        \* history: arguments of the saveProgress calls completed in this run
    loads,        \* history: the file each loadProgress call of this run found
    prev          \* history: how the previous process run ended

storeVars == <<cookies, mu, wg, cb, nSetCookies, runPc, retCookies, attached, upserts>>
reqVars   == <<reqHost>>
sessVars  == <<sPc, listener, task, phase, wait, consent, ctxDone, page, api, started,
               runErr, reads>>
derivedVars == <<runResult, rowFlags>>
metaVars  == <<ping, tcData>>
batchVars == <<proxies, browsers, stores>>
gvlVars   == <<cookieDomain, vendorDomain, domainMatched>>
\* the variables of the specifications that do not involve a whole run or main
otherVars == <<reqVars, derivedVars, metaVars, batchVars, gvlVars>>
expVars   == <<expCookie, now, expResult>>
mainVars  == <<fileHandle, domains, progressFile, outFile, wbuf, pc, index, lastProcessedIndex,
               runCookies, ci, runNo, processed, saved, loads, prev>>
vars      == <<storeVars, otherVars, sessVars, expVars, mainVars>>

---------------------------------------------------------------------------
(* Bounds of the model *)

\* number of OnResponse callbacks that may run at the same time
MaxCallbacks == 2
\* number of Set-Cookie headers the responses of one run carry in total
MaxUpserts == 3
\* latest instant of an expiry or a clock reading
MaxTime == 3
\* largest number of records of the domain list
MaxDomains == 2
\* number of process runs (first start plus restarts)
MaxRuns == 2
\* largest number of cookies run returns for one domain
MaxRunCookies == 1
\* largest checkpoint a previous batch (over another list) may have left behind
MaxStale == 11

\* length of the content of a checkpoint file not written by saveProgress
MaxFileLen == 2

\* longest duration of one round of waitForTcfApi (the probes and the sleep), in seconds
MaxRoundTime == 2

\* longest cookie list the row loop is checked on
MaxRowCookies == 3

\* longest consent string of the rows checked
MaxStrLen == 2

\* the longest cookie slice of a call of run in the batch
MaxBatchCookies == 2

\* number of Set-Cookie headers handled one after another
MaxUpsertCalls == 3

\* the longest domain handed to domainMatches
MaxDomainLen == 3

\* the largest number of cookie records of the classifier
MaxGvlCookies == 2

---------------------------------------------------------------------------
(* Strings and times *)

ZeroTime == 0

IsZero(t) == t = ZeroTime

Before(t, u) == t < u

\* strings.Contains(s, substr)
Contains(s, substr) ==
    \E i \in 0..(Len(s) - Len(substr)) : SubSeq(s, i + 1, i + Len(substr)) = substr

Digits == <<"0", "1", "2", "3", "4", "5", "6", "7", "8", "9">>

DigitValue(c) == (CHOOSE d \in 1..10 : Digits[d] = c) - 1

IsDigit(c) == \E d \in 1..10 : Digits[d] = c

RECURSIVE FormatNat(_)
FormatNat(n) ==
    IF n < 10 THEN <<Digits[n + 1]>>
    ELSE FormatNat(n \div 10) \o <<Digits[(n % 10) + 1]>>

\* strconv.Itoa
Itoa(n) == IF n < 0 THEN <<"-">> \o FormatNat(-n) ELSE FormatNat(n)

RECURSIVE ParseNat(_, _)
ParseNat(s, acc) ==
    IF s = <<>> THEN acc ELSE ParseNat(Tail(s), 10 * acc + DigitValue(Head(s)))

\* strconv.Atoi: [ok, val]; an optional sign, then one or more decimal digits
Atoi(s) ==
    LET signed == s # <<>> /\ Head(s) \in {"-", "+"}
        body   == IF signed THEN Tail(s) ELSE s
    IN  IF body = <<>> \/ \E k \in 1..Len(body) : ~IsDigit(body[k])
        THEN [ok |-> FALSE, val |-> 0]
        ELSE [ok |-> TRUE,
              val |-> IF signed /\ Head(s) = "-" THEN -ParseNat(body, 0)
                      ELSE ParseNat(body, 0)]

---------------------------------------------------------------------------
(* Cookies *)

NilCookie == [nil |-> TRUE]

\* there is no earlier process run
NoPrev == [kind |-> "none", cur |-> -1, processed |-> <<>>]

\* isCookieExpired has not been called
NoResult == [variant |-> "none", value |-> FALSE]

\* the locals of waitForTcfApi before its loop
NoWait == [isApiReady |-> FALSE, cmpId |-> 0, elapsed |-> 0, probed |-> FALSE]

\* setConsent has read nothing and stored nothing
NoConsent == [cmpId |-> 0, cmpVer |-> 0, gvlVer |-> 0, built |-> FALSE, stored |-> 0]

\* the strings runChromedp returns besides tcString, "" until a read succeeds
NoReads == [eventStatusBeforeRL |-> "", apiTcString |-> "", eventStatusAfterRL |-> ""]

\* run has not returned
NoRunResult == [tcString |-> <<>>, apiTcString |-> <<>>, eventStatusBeforeRL |-> "",
                eventStatusAfterRL |-> ""]

\* no row has been written
NoRowFlags == [written |-> FALSE, stringsEqual |-> "", statusUpdated |-> ""]

\* domainMatches has not been called
NotMatched == [called |-> FALSE, value |-> FALSE, inRange |-> TRUE]

\* no page
NoPing == [cmpId |-> 0, cmpVersion |-> 0, gvlVersion |-> 0]

\* no consent record has been built
NoTcData == [variant |-> "none", CmpId |-> 0, CmpVersion |-> 0, VendorListVersion |-> 0]

\* *http.Cookie as parsed from a Set-Cookie header: domain is the header's
\* Domain attribute ("" when it has none), expires is ZeroTime without an
\* Expires attribute, maxAge is -1 for "Max-Age<=0", 0 without Max-Age.
Cookie(n, d, v, p, e, a) ==
    [nil |-> FALSE, name |-> n, domain |-> d, value |-> v, path |-> p,
     expires |-> e, maxAge |-> a]

\* isCookieExpired of part_000 (no max-age test)
isCookieExpired_p0(cookie, t) ==
    IF cookie.nil THEN TRUE
    ELSE IF IsZero(cookie.expires) THEN TRUE
    ELSE Before(cookie.expires, t)

\* isCookieExpired of part_001
isCookieExpired(cookie, t) ==
    IF cookie.nil THEN TRUE
    ELSE IF IsZero(cookie.expires) THEN TRUE
    ELSE IF cookie.maxAge < 0 THEN TRUE
    ELSE Before(cookie.expires, t)

---------------------------------------------------------------------------
(* One call of run: the proxy callbacks and the cookie slice (part_001) *)

\* the domain under test, as main passes it: targetURL := "https://" + domain
Domain == <<"a", ".", "e", "x">>

TargetURL == <<"h", "t", "t", "p", "s", ":", "/", "/">> \o Domain

\* URL.Host of the requests seen by the proxy: the domain under test and a
\* third party
Hosts == { Domain, <<"t", ".", "e", "x">> }

\* the cookies a response may set
CookieIdentities == { <<"id", "">>, <<"id", "t.ex">>, <<"sid", "">> }

\* the values of the scenario "id=1, then id=2"
CookieValues == {1, 2}

SetCookies ==
    { Cookie(i[1], i[2], v, "/", ZeroTime, 0) : i \in CookieIdentities, v \in CookieValues }

\* no (further) Set-Cookie header in the response
NoCookie == [nil |-> TRUE]

\* an element of resp.Cookies(), or its end.  The list is an input that only
\* the range loop reads, so its elements are drawn one at a time, each when
\* the loop reaches it.
NextCookies == {NoCookie} \cup SetCookies

\* resp == nil || resp.Request == nil
NilResp == [nil |-> TRUE]

\* a response: its request's URL.Host and the first element of resp.Cookies()
Responses == {NilResp} \cup [nil : {FALSE}, host : Hosts, first : NextCookies]

Callbacks == 1..MaxCallbacks

IdleCallback == [pc |-> "idle", newCookie |-> NoCookie, found |-> FALSE, index |-> 0]

Identity(c) == <<c.name, c.domain>>

\* the history after an upsert of c: c is the latest cookie of its identity
Upserted(h, c) == { u \in h : Identity(u) # Identity(c) } \cup {c}

\* the search loop with the test on the domain left out
FindCookieByName(cs, newCookie) ==
    LET hits == { i \in 1..Len(cs) : cs[i].name = newCookie.name }
    IN  IF hits = {} THEN [found |-> FALSE, index |-> 0]
        ELSE [found |-> TRUE, index |-> CHOOSE i \in hits : \A k \in hits : i <= k]

\* the search loop of updateCookieList: [found, index] of the first entry
\* with the name and the domain of newCookie (index counts from 1)
FindCookie(cs, newCookie) ==
    LET hits == { i \in 1..Len(cs) :
                    cs[i].name = newCookie.name /\ cs[i].domain = newCookie.domain }
    IN  IF hits = {} THEN [found |-> FALSE, index |-> 0]
        ELSE [found |-> TRUE, index |-> CHOOSE i \in hits : \A k \in hits : i <= k]

\* the replacement moving the entry to the end of the slice
StoreCookieAtEnd(cs, newCookie, found, idx) ==
    IF ~found THEN Append(cs, newCookie)
    ELSE Append(SubSeq(cs, 1, idx - 1) \o SubSeq(cs, idx + 1, Len(cs)), newCookie)

\* the final if of updateCookieList: append, or replace the entry at index
StoreCookie(cs, newCookie, found, idx) ==
    IF ~found THEN Append(cs, newCookie) ELSE [cs EXCEPT ![idx] = newCookie]

\* append allocates a new backing array when the slice is full; a slice grown
\* one element at a time from nil has capacities 0, 1, 2, 4, 8, ...
GrowsOnAppend(len) == len = 0 \/ \E k \in 0..len : 2 ^ k = len

\* the slice value run's return statement has read, if any: what its holder
\* sees is the backing array, which later replacements still reach while
\* the slice has not been reallocated
NotRead == [read |-> FALSE, elems |-> <<>>, shared |-> FALSE]

RetAfterStore(ret, cs, newCookie, found, idx) ==
    IF ~ret.read \/ ~ret.shared THEN ret
    ELSE IF ~found THEN [ret EXCEPT !.shared = ~GrowsOnAppend(Len(cs))]
    ELSE IF idx <= Len(ret.elems) THEN [ret EXCEPT !.elems[idx] = newCookie]
    ELSE ret

\* the proxy serves requests until run has closed the server
Serving == runPc \in {"browse", "return", "wgWait", "shutdown", "serverClose"}

\* the input c is drawn: the responses of one run carry MaxUpserts cookies at most
Drawn(c) ==
    /\ ~c.nil => nSetCookies < MaxUpserts
    /\ nSetCookies' = IF c.nil THEN nSetCookies ELSE nSetCookies + 1

\* OnResponse, entry: wg.Add(1), the nil tests and the host test
OnResponse(p, resp) ==
    /\ Serving
    /\ cb[p].pc = "idle"
    /\ Drawn(IF resp.nil THEN NoCookie ELSE resp.first)
    /\ wg' = wg + 1
    /\ cb' = [cb EXCEPT ![p] =
                IF ~resp.nil /\ ~Contains(resp.host, TargetURL) /\ ~resp.first.nil
                THEN [IdleCallback EXCEPT !.pc = "lock", !.newCookie = resp.first]
                ELSE [IdleCallback EXCEPT !.pc = "exit"]]
    /\ UNCHANGED <<otherVars, sessVars, expVars, mainVars, cookies, mu, runPc, retCookies, attached, upserts>>

\* updateCookieList: mu.Lock()
Lock(p) ==
    /\ cb[p].pc = "lock"
    /\ mu = 0
    /\ mu' = p
    /\ cb' = [cb EXCEPT ![p].pc = "scan"]
    /\ UNCHANGED <<otherVars, sessVars, expVars, mainVars, cookies, wg, nSetCookies, runPc, retCookies, attached, upserts>>

\* updateCookieList: the search loop
Scan(p) ==
    /\ cb[p].pc = "scan"
    /\ LET r == FindCookie(cookies, cb[p].newCookie)
       IN  cb' = [cb EXCEPT ![p].pc = "store", ![p].found = r.found, ![p].index = r.index]
    /\ UNCHANGED <<otherVars, sessVars, expVars, mainVars, cookies, mu, wg, nSetCookies, runPc, retCookies, attached, upserts>>

\* updateCookieList: append or replace
Store(p) ==
    /\ cb[p].pc = "store"
    /\ cookies' = StoreCookie(cookies, cb[p].newCookie, cb[p].found, cb[p].index)
    /\ retCookies' = RetAfterStore(retCookies, cookies, cb[p].newCookie,
                                   cb[p].found, cb[p].index)
    /\ upserts' = Upserted(upserts, cb[p].newCookie)
    /\ cb' = [cb EXCEPT ![p].pc = "unlock"]
    /\ UNCHANGED <<otherVars, sessVars, expVars, mainVars, mu, wg, nSetCookies, runPc, attached>>

\* updateCookieList: the deferred mu.Unlock(), and the next cookie of the response
Unlock(p, next) ==
    /\ cb[p].pc = "unlock"
    /\ Drawn(next)
    /\ mu' = 0
    /\ cb' = [cb EXCEPT ![p] = IF next.nil THEN [IdleCallback EXCEPT !.pc = "exit"]
                                ELSE [IdleCallback EXCEPT !.pc = "lock", !.newCookie = next]]
    /\ UNCHANGED <<otherVars, sessVars, expVars, mainVars, cookies, wg, runPc, retCookies, attached, upserts>>

\* OnResponse, return: the deferred wg.Done()
OnResponseReturn(p) ==
    /\ cb[p].pc = "exit"
    /\ wg' = wg - 1
    /\ cb' = [cb EXCEPT ![p] = IdleCallback]
    /\ UNCHANGED <<otherVars, sessVars, expVars, mainVars, cookies, mu, nSetCookies, runPc, retCookies, attached, upserts>>

\* OnRequest: the cookies the callback adds to a request for host, cs being
\* the slice: all of them when the host contains targetURL, else none
RequestCookies(host, targetURL, cs) ==
    IF Contains(host, targetURL) THEN cs ELSE <<>>

\* OnRequest: the cookies of the slice are added when the host test succeeds
OnRequest(host) ==
    /\ Serving
    /\ attached' = RequestCookies(host, TargetURL, cookies)
    /\ UNCHANGED <<otherVars, sessVars, expVars, mainVars, cookies, mu, wg, cb, nSetCookies, runPc, retCookies, upserts>>

\* run: runChromedp returns (its steps are done, or its context timed out)
RunChromedpReturns ==
    /\ runPc = "browse"
    /\ runPc' = "return"
    /\ UNCHANGED <<otherVars, sessVars, expVars, mainVars, cookies, mu, wg, cb, nSetCookies, retCookies, attached,
                   upserts>>

\* run: the return statement reads cookies, without the mutex; the deferred
\* calls run after this read
RunReturn ==
    /\ runPc = "return"
    /\ retCookies' = [read |-> TRUE, elems |-> cookies, shared |-> TRUE]
    /\ runPc' = "wgWait"
    /\ UNCHANGED <<otherVars, sessVars, expVars, mainVars, cookies, mu, wg, cb, nSetCookies, attached, upserts>>

\* run, deferred: wg.Wait()
WgWait ==
    /\ runPc = "wgWait"
    /\ wg = 0
    /\ runPc' = "shutdown"
    /\ UNCHANGED <<otherVars, sessVars, expVars, mainVars, cookies, mu, wg, cb, nSetCookies, retCookies, attached, upserts>>

\* run, deferred: server.Shutdown(ctxShutdown)
Shutdown ==
    /\ runPc = "shutdown"
    /\ runPc' = "serverClose"
    /\ UNCHANGED <<otherVars, sessVars, expVars, mainVars, cookies, mu, wg, cb, nSetCookies, retCookies, attached, upserts>>

\* run, deferred: server.Close() and listener.Close()
ServerClose ==
    /\ runPc = "serverClose"
    /\ runPc' = "returned"
    /\ UNCHANGED <<otherVars, sessVars, expVars, mainVars, cookies, mu, wg, cb, nSetCookies, retCookies, attached, upserts>>

\* the state when run has registered its callbacks and started the proxy; the
\* variables of the other specifications rest
StoreInit ==
    /\ cookies = <<>>
    /\ mu = 0
    /\ wg = 0
    /\ cb = [p \in Callbacks |-> IdleCallback]
    /\ nSetCookies = 0
    /\ runPc = "browse"
    /\ retCookies = NotRead
    /\ attached = <<>>
    /\ upserts = {}
    /\ reqHost = <<>>
    /\ runResult = NoRunResult
    /\ rowFlags = NoRowFlags
    /\ ping = NoPing
    /\ tcData = NoTcData
    /\ proxies = <<>>
    /\ browsers = <<>>
    /\ stores = <<>>
    /\ cookieDomain = <<>>
    /\ vendorDomain = <<>>
    /\ domainMatched = NotMatched
    /\ sPc = "idle"
    /\ listener = "unset"
    /\ task = 1
    /\ phase = "start"
    /\ wait = NoWait
    /\ consent = NoConsent
    /\ ctxDone = FALSE
    /\ page = "noCmp"
    /\ api = "none"
    /\ started = <<>>
    /\ runErr = "none"
    /\ reads = NoReads
    /\ expCookie = NilCookie
    /\ now = 1
    /\ expResult = NoResult
    /\ domains = 0
    /\ fileHandle = "unset"
    /\ progressFile = [exists |-> FALSE, data |-> <<>>]
    /\ outFile = <<>>
    /\ wbuf = <<>>
    /\ pc = "idle"
    /\ index = 0
    /\ lastProcessedIndex = 0
    /\ runCookies = <<>>
    /\ ci = 0
    /\ runNo = 0
    /\ processed = <<>>
    /\ saved = <<>>
    /\ loads = <<>>
    /\ prev = NoPrev

StoreNext ==
    \/ \E p \in Callbacks, resp \in Responses : OnResponse(p, resp)
    \/ \E p \in Callbacks : Lock(p)
    \/ \E p \in Callbacks : Scan(p)
    \/ \E p \in Callbacks : Store(p)
    \/ \E p \in Callbacks, next \in NextCookies : Unlock(p, next)
    \/ \E p \in Callbacks : OnResponseReturn(p)
    \/ \E host \in Hosts : OnRequest(host)
    \/ RunChromedpReturns
    \/ RunReturn
    \/ WgWait
    \/ Shutdown
    \/ ServerClose

---------------------------------------------------------------------------
(* The OnResponse callback of part_000: the upsert written inline *)

\* OnResponse, entry: wg.Add(1), the nil tests and the host test
OnResponse_p0(p, resp) ==
    /\ Serving
    /\ cb[p].pc = "idle"
    /\ Drawn(IF resp.nil THEN NoCookie ELSE resp.first)
    /\ wg' = wg + 1
    /\ cb' = [cb EXCEPT ![p] =
                IF ~resp.nil /\ ~Contains(resp.host, TargetURL) /\ ~resp.first.nil
                THEN [IdleCallback EXCEPT !.pc = "scan", !.newCookie = resp.first]
                ELSE [IdleCallback EXCEPT !.pc = "exit"]]
    /\ UNCHANGED <<otherVars, sessVars, expVars, mainVars, cookies, mu, runPc, retCookies, attached, upserts>>

\* the search for existingCookie: it reads the slice without the mutex
Scan_p0(p) ==
    /\ cb[p].pc = "scan"
    /\ LET r == FindCookie(cookies, cb[p].newCookie)
       IN  cb' = [cb EXCEPT ![p].pc = IF r.found THEN "setValue" ELSE "lock",
                           ![p].found = r.found, ![p].index = r.index]
    /\ UNCHANGED <<otherVars, sessVars, expVars, mainVars, cookies, mu, wg, nSetCookies, runPc, retCookies, attached, upserts>>

\* existingCookie == nil: mu.Lock()
Lock_p0(p) ==
    /\ cb[p].pc = "lock"
    /\ mu = 0
    /\ mu' = p
    /\ cb' = [cb EXCEPT ![p].pc = "append"]
    /\ UNCHANGED <<otherVars, sessVars, expVars, mainVars, cookies, wg, nSetCookies, runPc, retCookies, attached, upserts>>

\* cookies = append(cookies, newCookie)
Append_p0(p) ==
    /\ cb[p].pc = "append"
    /\ cookies' = Append(cookies, cb[p].newCookie)
    /\ retCookies' = RetAfterStore(retCookies, cookies, cb[p].newCookie, FALSE, 0)
    /\ upserts' = Upserted(upserts, cb[p].newCookie)
    /\ cb' = [cb EXCEPT ![p].pc = "unlock"]
    /\ UNCHANGED <<otherVars, sessVars, expVars, mainVars, mu, wg, nSetCookies, runPc, attached>>

\* mu.Unlock(), and the next cookie of the response
Unlock_p0(p, next) ==
    /\ cb[p].pc = "unlock"
    /\ Drawn(next)
    /\ mu' = 0
    /\ cb' = [cb EXCEPT ![p] = IF next.nil THEN [IdleCallback EXCEPT !.pc = "exit"]
                                ELSE [IdleCallback EXCEPT !.pc = "scan", !.newCookie = next]]
    /\ UNCHANGED <<otherVars, sessVars, expVars, mainVars, cookies, wg, runPc, retCookies, attached, upserts>>

\* existingCookie.Value = newCookie.Value: a write through the pointer the
\* slice holds, made without the mutex; the other fields stay
SetValue_p0(p, next) ==
    /\ cb[p].pc = "setValue"
    /\ Drawn(next)
    /\ cookies' = [cookies EXCEPT ![cb[p].index].value = cb[p].newCookie.value]
    /\ retCookies' =
         IF retCookies.read /\ cb[p].index <= Len(retCookies.elems)
         THEN [retCookies EXCEPT !.elems[cb[p].index].value = cb[p].newCookie.value]
         ELSE retCookies
    /\ upserts' = Upserted(upserts, cb[p].newCookie)
    /\ cb' = [cb EXCEPT ![p] = IF next.nil THEN [IdleCallback EXCEPT !.pc = "exit"]
                                ELSE [IdleCallback EXCEPT !.pc = "scan", !.newCookie = next]]
    /\ UNCHANGED <<otherVars, sessVars, expVars, mainVars, mu, wg, runPc, attached>>

StoreNext_p0 ==
    \/ \E p \in Callbacks, resp \in Responses : OnResponse_p0(p, resp)
    \/ \E p \in Callbacks : Scan_p0(p)
    \/ \E p \in Callbacks : Lock_p0(p)
    \/ \E p \in Callbacks : Append_p0(p)
    \/ \E p \in Callbacks, next \in NextCookies : Unlock_p0(p, next)
    \/ \E p \in Callbacks, next \in NextCookies : SetValue_p0(p, next)
    \/ \E p \in Callbacks : OnResponseReturn(p)
    \/ \E host \in Hosts : OnRequest(host)
    \/ RunChromedpReturns
    \/ RunReturn
    \/ WgWait
    \/ Shutdown
    \/ ServerClose

---------------------------------------------------------------------------
(* isCookieExpired on bounded inputs *)

ExpiredInputs ==
    {NilCookie} \cup
    { Cookie("id", "t.ex", 1, "/", e, a) : e \in ZeroTime..MaxTime, a \in -1..1 }

\* a call of isCookieExpired of part_001
CallIsCookieExpired ==
    /\ expResult = NoResult
    /\ expResult' = [variant |-> "part_001", value |-> isCookieExpired(expCookie, now)]
    /\ UNCHANGED <<otherVars, sessVars, storeVars, mainVars, expCookie, now>>

\* a call of isCookieExpired of part_000
CallIsCookieExpired_p0 ==
    /\ expResult = NoResult
    /\ expResult' = [variant |-> "part_000", value |-> isCookieExpired_p0(expCookie, now)]
    /\ UNCHANGED <<otherVars, sessVars, storeVars, mainVars, expCookie, now>>

ExpInit ==
    /\ expCookie \in ExpiredInputs
    /\ now \in 1..MaxTime
    /\ expResult = NoResult
    /\ cookies = <<>>
    /\ mu = 0
    /\ wg = 0
    /\ cb = [p \in Callbacks |-> IdleCallback]
    /\ nSetCookies = 0
    /\ runPc = "browse"
    /\ retCookies = NotRead
    /\ attached = <<>>
    /\ upserts = {}
    /\ reqHost = <<>>
    /\ runResult = NoRunResult
    /\ rowFlags = NoRowFlags
    /\ ping = NoPing
    /\ tcData = NoTcData
    /\ proxies = <<>>
    /\ browsers = <<>>
    /\ stores = <<>>
    /\ cookieDomain = <<>>
    /\ vendorDomain = <<>>
    /\ domainMatched = NotMatched
    /\ sPc = "idle"
    /\ listener = "unset"
    /\ task = 1
    /\ phase = "start"
    /\ wait = NoWait
    /\ consent = NoConsent
    /\ ctxDone = FALSE
    /\ page = "noCmp"
    /\ api = "none"
    /\ started = <<>>
    /\ runErr = "none"
    /\ reads = NoReads
    /\ domains = 0
    /\ fileHandle = "unset"
    /\ progressFile = [exists |-> FALSE, data |-> <<>>]
    /\ outFile = <<>>
    /\ wbuf = <<>>
    /\ pc = "idle"
    /\ index = 0
    /\ lastProcessedIndex = 0
    /\ runCookies = <<>>
    /\ ci = 0
    /\ runNo = 0
    /\ processed = <<>>
    /\ saved = <<>>
    /\ loads = <<>>
    /\ prev = NoPrev

ExpNext == CallIsCookieExpired \/ CallIsCookieExpired_p0

---------------------------------------------------------------------------
(* main of part_001: the batch loop, the checkpoint and the output file *)

\* loadProgress: 0 when the file cannot be read or does not parse
loadProgress(file) ==
    IF ~file.exists THEN 0
    ELSE LET r == Atoi(file.data) IN IF r.ok THEN r.val ELSE 0

\* os.Create replaced by an open that does not truncate
saveProgressCreateKeep(file) == [file EXCEPT !.exists = TRUE]

\* saveProgress, os.Create("progress.txt"): the file exists and is empty
saveProgressCreate(file) == [exists |-> TRUE, data |-> <<>>]

\* f.WriteString replaced by a write of the number and a line feed
saveProgressWriteLine(file, idx) == [file EXCEPT !.data = file.data \o Itoa(idx) \o <<"\n">>]
\* saveProgress, f.WriteString(strconv.Itoa(index))
saveProgressWrite(file, idx) == [file EXCEPT !.data = file.data \o Itoa(idx)]

\* the test of the domain loop "index < lastProcessedIndex", off by one
AlreadyProcessedInclusive(idx, last) == idx <= last

\* the test of the domain loop: skip the domains that have been processed
AlreadyProcessed(idx, last) == idx < last

\* the argument of saveProgress in the loop, without the increment
NextCheckpointSame(idx) == idx

\* the argument of saveProgress in the loop: index + 1
NextCheckpoint(idx) == idx + 1

\* the cookies run may return: one that is not expired, one without expiry
RunCookieSet ==
    { Cookie("id", "t.ex", 1, "/", MaxTime, 0), Cookie("sid", "", 1, "/", ZeroTime, 0) }

RECURSIVE SeqsUpTo(_, _)
SeqsUpTo(S, n) ==
    IF n = 0 THEN {<<>>}
    ELSE LET shorter == SeqsUpTo(S, n - 1)
         IN  shorter \cup { Append(q, x) : q \in shorter, x \in S }

\* rows of the output file: the header, and one row per cookie written
HeaderRow == [run |-> 0, dom |-> -1, name |-> "Website"]

Row(r, d, c) == [run |-> r, dom |-> d, name |-> c.name]

\* the position of main after openCSVFile, with the error only logged
AfterOpenLogged(err) == "load"

\* the position of main after openCSVFile: log.Fatal ends the process when
\* the file could not be opened
AfterOpen(err) == IF err THEN "fatal" ELSE "load"

\* the header written whatever the file holds
isEmptyFileAlways(f) == TRUE

\* isEmptyFile: the size of the file is 0 (file.Stat() of the file just
\* opened succeeds)
isEmptyFile(f) == Len(f) = 0

\* main: openCSVFile (the file is opened for appending, and created when it
\* does not exist), log.Fatal on its error, and the header, written and
\* flushed, when isEmptyFile
OpenOutput(err) ==
    /\ pc = "start"
    /\ fileHandle' = IF err THEN "nil" ELSE "open"
    /\ outFile' = IF ~err /\ isEmptyFile(outFile) THEN <<HeaderRow>> ELSE outFile
    /\ pc' = AfterOpen(err)
    /\ UNCHANGED <<otherVars, sessVars, storeVars, expVars, domains, progressFile, wbuf, index,
                   lastProcessedIndex, runCookies, ci, runNo, processed, saved, loads, prev>>

\* main: lastProcessedIndex := loadProgress()
LoadProgress ==
    /\ pc = "load"
    /\ lastProcessedIndex' = loadProgress(progressFile)
    /\ loads' = Append(loads, progressFile)
    /\ index' = 0
    /\ pc' = "loop"
    /\ UNCHANGED <<otherVars, sessVars, storeVars, expVars, fileHandle, domains, progressFile, outFile, wbuf,
                   runCookies, ci, runNo, processed, saved, prev>>

\* the domain loop: continue
SkipDomain ==
    /\ pc = "loop"
    /\ index < domains
    /\ AlreadyProcessed(index, lastProcessedIndex)
    /\ index' = index + 1
    /\ UNCHANGED <<otherVars, sessVars, storeVars, expVars, fileHandle, domains, progressFile, outFile, wbuf, pc,
                   lastProcessedIndex, runCookies, ci, runNo, processed, saved, loads, prev>>

\* the domain loop: createDomainContext and run(targetURL, ctx), which returns
\* some list of cookies
RunDomain(cs) ==
    /\ pc = "loop"
    /\ index < domains
    /\ ~AlreadyProcessed(index, lastProcessedIndex)
    /\ runCookies' = cs
    /\ ci' = 0
    /\ processed' = Append(processed, index)
    /\ pc' = "rows"
    /\ UNCHANGED <<otherVars, sessVars, storeVars, expVars, fileHandle, domains, progressFile, outFile, wbuf, index,
                   lastProcessedIndex, runNo, saved, loads, prev>>

\* the test of the row loop without its negation
RowWantedInverted(c, t) == isCookieExpired(c, t)

\* the test of the row loop: !isCookieExpired(c)
RowWanted(c, t) == ~isCookieExpired(c, t)

\* the row loop: writer.Write for a cookie that is not expired
WriteRow ==
    /\ pc = "rows"
    /\ ci < Len(runCookies)
    /\ RowWanted(runCookies[ci + 1], now)
    /\ wbuf' = Append(wbuf, Row(runNo, index, runCookies[ci + 1]))
    /\ pc' = "flush"
    /\ UNCHANGED <<otherVars, sessVars, storeVars, expVars, fileHandle, domains, progressFile, outFile, index,
                   lastProcessedIndex, runCookies, ci, runNo, processed, saved, loads, prev>>

\* the row loop: writer.Flush after the row
FlushRow ==
    /\ pc = "flush"
    /\ outFile' = outFile \o wbuf
    /\ wbuf' = <<>>
    /\ ci' = ci + 1
    /\ pc' = "rows"
    /\ UNCHANGED <<otherVars, sessVars, storeVars, expVars, fileHandle, domains, progressFile, index,
                   lastProcessedIndex, runCookies, runNo, processed, saved, loads, prev>>

\* the row loop: an expired cookie gets no row
SkipExpired ==
    /\ pc = "rows"
    /\ ci < Len(runCookies)
    /\ ~RowWanted(runCookies[ci + 1], now)
    /\ ci' = ci + 1
    /\ UNCHANGED <<otherVars, sessVars, storeVars, expVars, fileHandle, domains, progressFile, outFile, wbuf, pc, index,
                   lastProcessedIndex, runCookies, runNo, processed, saved, loads, prev>>

\* saveProgress(index + 1): os.Create truncates the file
SaveCreate ==
    /\ pc = "rows"
    /\ ci = Len(runCookies)
    /\ progressFile' = saveProgressCreate(progressFile)
    /\ pc' = "saveWrite"
    /\ UNCHANGED <<otherVars, sessVars, storeVars, expVars, fileHandle, domains, outFile, wbuf, index,
                   lastProcessedIndex, runCookies, ci, runNo, processed, saved, loads, prev>>

\* saveProgress(index + 1): the integer is written
SaveWrite ==
    /\ pc = "saveWrite"
    /\ progressFile' = saveProgressWrite(progressFile, NextCheckpoint(index))
    /\ saved' = Append(saved, NextCheckpoint(index))
    /\ pc' = "cancelCtx"
    /\ UNCHANGED <<otherVars, sessVars, storeVars, expVars, fileHandle, domains, outFile, wbuf, index,
                   lastProcessedIndex, runCookies, ci, runNo, processed, loads, prev>>

\* cancelCtx(), and the loop goes to the next record
CancelCtx ==
    /\ pc = "cancelCtx"
    /\ index' = index + 1
    /\ pc' = "loop"
    /\ UNCHANGED <<otherVars, sessVars, storeVars, expVars, fileHandle, domains, progressFile, outFile, wbuf,
                   lastProcessedIndex, runCookies, ci, runNo, processed, saved, loads, prev>>

\* the list is exhausted and main returns without the final saveProgress(0)
ResetSkipped ==
    /\ pc = "loop"
    /\ index = domains
    /\ pc' = "done"
    /\ UNCHANGED <<otherVars, sessVars, storeVars, expVars, fileHandle, domains, progressFile, outFile, wbuf, index,
                   lastProcessedIndex, runCookies, ci, runNo, processed, saved, loads, prev>>

\* the list is exhausted; saveProgress(0): os.Create truncates the file
ResetCreate ==
    /\ pc = "loop"
    /\ index = domains
    /\ progressFile' = saveProgressCreate(progressFile)
    /\ pc' = "resetWrite"
    /\ UNCHANGED <<otherVars, sessVars, storeVars, expVars, fileHandle, domains, outFile, wbuf, index,
                   lastProcessedIndex, runCookies, ci, runNo, processed, saved, loads, prev>>

\* saveProgress(0): the integer is written, and main returns
ResetWrite ==
    /\ pc = "resetWrite"
    /\ progressFile' = saveProgressWrite(progressFile, 0)
    /\ saved' = Append(saved, 0)
    /\ pc' = "done"
    /\ UNCHANGED <<otherVars, sessVars, storeVars, expVars, fileHandle, domains, outFile, wbuf, index,
                   lastProcessedIndex, runCookies, ci, runNo, processed, loads, prev>>

\* the positions of main at which a domain is in progress
InDomain == pc \in {"rows", "flush", "saveWrite", "cancelCtx"}

\* the process is killed: its memory and what the csv.Writer buffers are lost,
\* the files stay
Crash ==
    /\ pc \in {"start", "load", "loop", "rows", "flush", "saveWrite", "cancelCtx",
               "resetWrite"}
    /\ prev' = [kind |-> "crashed", cur |-> IF InDomain THEN index ELSE -1,
                processed |-> processed]
    /\ pc' = "crashed"
    /\ wbuf' = <<>>
    /\ index' = 0
    /\ lastProcessedIndex' = 0
    /\ runCookies' = <<>>
    /\ ci' = 0
    /\ processed' = <<>>
    /\ saved' = <<>>
    /\ loads' = <<>>
    /\ fileHandle' = "unset"
    /\ UNCHANGED <<otherVars, sessVars, storeVars, expVars, domains, progressFile, outFile, runNo>>

\* the program is started again on the same files
Restart ==
    /\ pc \in {"done", "crashed"}
    /\ runNo < MaxRuns
    /\ runNo' = runNo + 1
    /\ prev' = IF pc = "done"
               THEN [kind |-> "clean", cur |-> -1, processed |-> processed]
               ELSE prev
    /\ pc' = "start"
    /\ index' = 0
    /\ lastProcessedIndex' = 0
    /\ runCookies' = <<>>
    /\ ci' = 0
    /\ processed' = <<>>
    /\ saved' = <<>>
    /\ loads' = <<>>
    /\ fileHandle' = "unset"
    /\ UNCHANGED <<otherVars, sessVars, storeVars, expVars, domains, progressFile, outFile, wbuf>>

\* the start of main: a domain list, an output file that does not exist yet,
\* and no checkpoint file or one an earlier batch left behind
Init ==
    /\ domains \in 0..MaxDomains
    /\ fileHandle = "unset"
    /\ progressFile \in
         {[exists |-> FALSE, data |-> <<>>]} \cup
         { [exists |-> TRUE, data |-> Itoa(k)] : k \in 0..MaxStale }
    /\ outFile = <<>>
    /\ wbuf = <<>>
    /\ pc = "start"
    /\ index = 0
    /\ lastProcessedIndex = 0
    /\ runCookies = <<>>
    /\ ci = 0
    /\ runNo = 1
    /\ processed = <<>>
    /\ saved = <<>>
    /\ loads = <<>>
    /\ prev = NoPrev
    /\ cookies = <<>>
    /\ mu = 0
    /\ wg = 0
    /\ cb = [p \in Callbacks |-> IdleCallback]
    /\ nSetCookies = 0
    /\ runPc = "browse"
    /\ retCookies = NotRead
    /\ attached = <<>>
    /\ upserts = {}
    /\ reqHost = <<>>
    /\ runResult = NoRunResult
    /\ rowFlags = NoRowFlags
    /\ ping = NoPing
    /\ tcData = NoTcData
    /\ proxies = <<>>
    /\ browsers = <<>>
    /\ stores = <<>>
    /\ cookieDomain = <<>>
    /\ vendorDomain = <<>>
    /\ domainMatched = NotMatched
    /\ sPc = "idle"
    /\ listener = "unset"
    /\ task = 1
    /\ phase = "start"
    /\ wait = NoWait
    /\ consent = NoConsent
    /\ ctxDone = FALSE
    /\ page = "noCmp"
    /\ api = "none"
    /\ started = <<>>
    /\ runErr = "none"
    /\ reads = NoReads
    /\ expCookie = NilCookie
    /\ now = 1
    /\ expResult = NoResult

Next ==
    \/ \E err \in BOOLEAN : OpenOutput(err)
    \/ LoadProgress
    \/ SkipDomain
    \/ \E cs \in SeqsUpTo(RunCookieSet, MaxRunCookies) : RunDomain(cs)
    \/ WriteRow
    \/ FlushRow
    \/ SkipExpired
    \/ SaveCreate
    \/ SaveWrite
    \/ CancelCtx
    \/ ResetCreate
    \/ ResetWrite
    \/ Crash
    \/ Restart

---------------------------------------------------------------------------
(* saveProgress and loadProgress as a pair, on bounded files *)

\* the characters of a progress.txt that something else than saveProgress wrote
FileChars == {"0", "1", "7", "-", "x", "\n"}

\* what loadProgress may find: ioutil.ReadFile fails (the file is absent or
\* cannot be read: exists is FALSE), or it returns the content
ProgressFiles ==
    {[exists |-> FALSE, data |-> <<>>]} \cup
    { [exists |-> TRUE, data |-> s] : s \in SeqsUpTo(FileChars, MaxFileLen) }

\* a whole call saveProgress(i): os.Create, WriteString, the deferred Close
CallSaveProgress(i) ==
    /\ pc \in {"call", "saved", "loaded"}
    /\ progressFile' = saveProgressWrite(saveProgressCreate(progressFile), i)
    /\ saved' = <<i>>
    /\ loads' = <<>>
    /\ pc' = "saved"
    /\ UNCHANGED <<otherVars, sessVars, storeVars, expVars, fileHandle, domains, outFile, wbuf, index, lastProcessedIndex,
                   runCookies, ci, runNo, processed, prev>>

\* a whole call loadProgress()
CallLoadProgress ==
    /\ pc \in {"call", "saved"}
    /\ lastProcessedIndex' = loadProgress(progressFile)
    /\ loads' = <<progressFile>>
    /\ pc' = "loaded"
    /\ UNCHANGED <<otherVars, sessVars, storeVars, expVars, fileHandle, domains, progressFile, outFile, wbuf, index,
                   runCookies, ci, runNo, processed, saved, prev>>

ProgressInit ==
    /\ progressFile \in ProgressFiles
    /\ pc = "call"
    /\ domains = 0
    /\ fileHandle = "unset"
    /\ outFile = <<>>
    /\ wbuf = <<>>
    /\ index = 0
    /\ lastProcessedIndex = 0
    /\ runCookies = <<>>
    /\ ci = 0
    /\ runNo = 0
    /\ processed = <<>>
    /\ saved = <<>>
    /\ loads = <<>>
    /\ prev = NoPrev
    /\ cookies = <<>>
    /\ mu = 0
    /\ wg = 0
    /\ cb = [p \in Callbacks |-> IdleCallback]
    /\ nSetCookies = 0
    /\ runPc = "browse"
    /\ retCookies = NotRead
    /\ attached = <<>>
    /\ upserts = {}
    /\ reqHost = <<>>
    /\ runResult = NoRunResult
    /\ rowFlags = NoRowFlags
    /\ ping = NoPing
    /\ tcData = NoTcData
    /\ proxies = <<>>
    /\ browsers = <<>>
    /\ stores = <<>>
    /\ cookieDomain = <<>>
    /\ vendorDomain = <<>>
    /\ domainMatched = NotMatched
    /\ sPc = "idle"
    /\ listener = "unset"
    /\ task = 1
    /\ phase = "start"
    /\ wait = NoWait
    /\ consent = NoConsent
    /\ ctxDone = FALSE
    /\ page = "noCmp"
    /\ api = "none"
    /\ started = <<>>
    /\ runErr = "none"
    /\ reads = NoReads
    /\ expCookie = NilCookie
    /\ now = 1
    /\ expResult = NoResult

ProgressNext ==
    \/ \E i \in 0..MaxStale : CallSaveProgress(i)
    \/ CallLoadProgress

---------------------------------------------------------------------------
(* The OnRequest callback of part_001 on bounded inputs *)

\* req.URL.Host of the requests: a host, or host:port; the domain under test,
\* with a port, a subdomain of it, and a third party
ReqHosts ==
    Hosts \cup { Domain \o <<":", "4", "4", "3">>, <<"w", ".">> \o Domain }

\* the slices the callback may find: up to MaxUpserts cookies, one per identity
ReqStores ==
    { cs \in SeqsUpTo(SetCookies, MaxUpserts) :
        \A i, j \in 1..Len(cs) : Identity(cs[i]) = Identity(cs[j]) => i = j }

\* a whole call of the OnRequest callback for a request to host
CallOnRequest(host) ==
    /\ reqHost = <<>>
    /\ reqHost' = host
    /\ attached' = RequestCookies(host, TargetURL, cookies)
    /\ UNCHANGED <<derivedVars, metaVars, batchVars, gvlVars, sessVars, expVars, mainVars, cookies, mu, wg, cb,
                   nSetCookies, runPc,
                   retCookies, upserts>>

RequestInit ==
    /\ cookies \in ReqStores
    /\ reqHost = <<>>
    /\ runResult = NoRunResult
    /\ rowFlags = NoRowFlags
    /\ ping = NoPing
    /\ tcData = NoTcData
    /\ proxies = <<>>
    /\ browsers = <<>>
    /\ stores = <<>>
    /\ cookieDomain = <<>>
    /\ vendorDomain = <<>>
    /\ domainMatched = NotMatched
    /\ sPc = "idle"
    /\ listener = "unset"
    /\ task = 1
    /\ phase = "start"
    /\ wait = NoWait
    /\ consent = NoConsent
    /\ ctxDone = FALSE
    /\ page = "noCmp"
    /\ api = "none"
    /\ started = <<>>
    /\ runErr = "none"
    /\ reads = NoReads
    /\ attached = <<>>
    /\ mu = 0
    /\ wg = 0
    /\ cb = [p \in Callbacks |-> IdleCallback]
    /\ nSetCookies = 0
    /\ runPc = "browse"
    /\ retCookies = NotRead
    /\ upserts = {}
    /\ expCookie = NilCookie
    /\ now = 1
    /\ expResult = NoResult
    /\ domains = 0
    /\ fileHandle = "unset"
    /\ progressFile = [exists |-> FALSE, data |-> <<>>]
    /\ outFile = <<>>
    /\ wbuf = <<>>
    /\ pc = "idle"
    /\ index = 0
    /\ lastProcessedIndex = 0
    /\ runCookies = <<>>
    /\ ci = 0
    /\ runNo = 0
    /\ processed = <<>>
    /\ saved = <<>>
    /\ loads = <<>>
    /\ prev = NoPrev

RequestNext == \E host \in ReqHosts : CallOnRequest(host)
---------------------------------------------------------------------------
(* One browser session of part_001: net.Listen and the tasks of runChromedp *)

\* the task list with the consent injection ahead of the first readiness wait
TasksConsentFirst ==
    <<"enable", "navigate", "setConsent", "waitForTcfApi", "getTcEventStatus",
      "reload", "waitForTcfApi", "getTCstring", "getTcEventStatus", "blank">>
\* the tasks runChromedp hands to chromedp.Run, in the order of the call;
\* chromedp.Run executes them one after the other and stops at the first
\* task that returns an error
Tasks ==
    <<"enable", "navigate", "waitForTcfApi", "getTcEventStatus", "setConsent",
      "reload", "waitForTcfApi", "getTCstring", "getTcEventStatus", "blank">>

\* the outcome of one script evaluation in the browser
EvalErr == [err |-> TRUE, value |-> 0]

EvalOk(v) == [err |-> FALSE, value |-> v]

\* the cmpId the consent management platform of the page reports
PageCmpId == 7

\* every outcome of the evaluation of a script that yields a number
Evals == {EvalErr} \cup { EvalOk(v) : v \in {-1, 0, 1, PageCmpId} }

\* every outcome of the evaluation of a script that yields a boolean
BoolEvals == {[err |-> TRUE, value |-> FALSE]} \cup { EvalOk(b) : b \in BOOLEAN }

\* typeof window.__tcfapi === 'function'
TypeofOutcomes ==
    IF ctxDone THEN {[err |-> TRUE, value |-> FALSE]}
    ELSE {[err |-> TRUE, value |-> FALSE], EvalOk(api # "none")}

\* cmpIDJS: calls window.__tcfapi('ping', ...), which throws when the function
\* is not defined; the cmpId is 0 until the platform has loaded its data
PingOutcomes ==
    IF ctxDone \/ api = "none" THEN {EvalErr}
    ELSE {EvalErr, EvalOk(IF api = "ready" THEN PageCmpId ELSE 0)}

\* cmpIDJS, cmpVerJS, gvlVerJS as setConsent evaluates them: a number the page
\* reports, or an exception
IntOutcomes ==
    IF ctxDone \/ api = "none" THEN {EvalErr}
    ELSE {EvalErr} \cup { EvalOk(v) : v \in {-1, 0, PageCmpId} }

\* a script or a browser command that does not use the consent API
PlainOutcomes == IF ctxDone THEN {EvalErr} ELSE {EvalErr, EvalOk(1)}

\* the default values setConsent passes to evaluateJSAndGetInteger
DefaultCmpVersion == 1

DefaultGvlVersion == 189

\* evaluateJSAndGetInteger: [err, val] for the outcome res of the evaluation
\* and the variadic defaultValue
evaluateJSAndGetInteger(res, defaultValue) ==
    IF res.err THEN [err |-> TRUE, val |-> 0]
    ELSE IF res.value # -1 THEN [err |-> FALSE, val |-> res.value]
    ELSE IF Len(defaultValue) > 0 THEN [err |-> FALSE, val |-> defaultValue[1]]
    ELSE [err |-> FALSE, val |-> 0]

\* the timeout and the sleep of waitForTcfApi, in seconds
TCFTimeOut == 10

TCFWaitInterval == 1

\* time.Since(startTime) after a round that took d seconds; beyond the timeout
\* the value does not matter and is not counted further
Elapse(e, d) == IF e + d > TCFTimeOut THEN TCFTimeOut + 1 ELSE e + d

\* the break of waitForTcfApi
TimedOut(e) == e > TCFTimeOut

\* the loop condition with "and" in the place of "or"
LoopAgainBoth(isApiReady, cmpId) == ~isApiReady /\ cmpId = 0

\* the loop condition of waitForTcfApi
LoopAgain(isApiReady, cmpId) == ~isApiReady \/ cmpId = 0

\* the task after the current one
NextTask ==
    /\ task' = task + 1
    /\ phase' = "start"

\* chromedp.Run returns the error of the current task; runChromedp logs it
RunFails(cause) ==
    /\ runErr' = cause
    /\ sPc' = "returned"
    /\ UNCHANGED <<task, phase>>

\* run: net.Listen; a failure is logged and listener stays nil
Listen(ok) ==
    /\ sPc = "listen"
    /\ listener' = IF ok THEN "bound" ELSE "nil"
    /\ sPc' = "deferClose"
    /\ UNCHANGED <<storeVars, otherVars, expVars, mainVars, task, phase, wait, consent,
                   ctxDone, page, api, started, runErr, reads>>

\* run: defer listener.Close().  The method value of a nil interface cannot
\* be evaluated: the statement panics, nothing recovers, the process ends.
\* With a listener run goes on to start the server and to call runChromedp.
DeferListenerClose ==
    /\ sPc = "deferClose"
    /\ sPc' = IF listener = "nil" THEN "panic" ELSE "tasks"
    /\ UNCHANGED <<storeVars, otherVars, expVars, mainVars, listener, task, phase, wait,
                   consent, ctxDone, page, api, started, runErr, reads>>

\* network.Enable, chromedp.Navigate(targetURL), chromedp.Reload,
\* chromedp.Navigate("about:blank"): a browser command; a navigation gives a
\* fresh document, in which the consent API is not defined yet
BrowserCommand(res) ==
    /\ sPc = "tasks"
    /\ task <= Len(Tasks)
    /\ Tasks[task] \in {"enable", "navigate", "reload", "blank"}
    /\ res \in PlainOutcomes
    /\ started' = Append(started, Tasks[task])
    /\ IF res.err
       THEN RunFails("command") /\ UNCHANGED api
       ELSE /\ NextTask
            /\ api' = IF Tasks[task] = "enable" THEN api ELSE "none"
            /\ UNCHANGED <<sPc, runErr>>
    /\ UNCHANGED <<storeVars, otherVars, expVars, mainVars, listener, wait, consent,
                   ctxDone, page, reads>>

\* waitForTcfApi: the locals are set and the loop is entered (isApiReady is false)
WaitStart ==
    /\ sPc = "tasks"
    /\ task <= Len(Tasks)
    /\ Tasks[task] = "waitForTcfApi"
    /\ phase = "start"
    /\ started' = Append(started, Tasks[task])
    /\ wait' = NoWait
    /\ phase' = "loop"
    /\ UNCHANGED <<storeVars, otherVars, expVars, mainVars, sPc, listener, task, consent,
                   ctxDone, page, api, runErr, reads>>

\* waitForTcfApi: one round of the loop: the two probes, whose errors are
\* dropped, the sleep, the break on the timeout, and the loop condition
WaitRound(r1, r2, d) ==
    /\ sPc = "tasks"
    /\ phase = "loop"
    /\ r1 \in TypeofOutcomes
    /\ r2 \in PingOutcomes
    /\ LET ready   == IF r1.err THEN wait.isApiReady ELSE r1.value
           id      == IF r2.err THEN wait.cmpId ELSE r2.value
           elapsed == Elapse(wait.elapsed, d)
       IN  /\ wait' = [isApiReady |-> ready, cmpId |-> id, elapsed |-> elapsed,
                       probed |-> TRUE]
           /\ IF TimedOut(elapsed) \/ ~LoopAgain(ready, id)
              THEN NextTask
              ELSE UNCHANGED <<task, phase>>
    /\ UNCHANGED <<storeVars, otherVars, expVars, mainVars, sPc, listener, consent,
                   ctxDone, page, api, started, runErr, reads>>

\* the variable a read task assigns
ReadTarget(t) ==
    IF Tasks[t] = "getTCstring" THEN "apiTcString"
    ELSE IF t < 6 THEN "eventStatusBeforeRL" ELSE "eventStatusAfterRL"

\* getTcEventStatus, getTCstring: the script awaits a promise that, without
\* the consent API, is resolved only once the page announces it; the
\* evaluation ends with the context at the latest.  An error is logged, the
\* zero value of jsonResponse is assigned, and the task returns nil.
ReadTask(res) ==
    /\ sPc = "tasks"
    /\ task <= Len(Tasks)
    /\ Tasks[task] \in {"getTcEventStatus", "getTCstring"}
    /\ api # "none" \/ ctxDone
    /\ res \in PlainOutcomes
    /\ started' = Append(started, Tasks[task])
    /\ reads' = [reads EXCEPT ![ReadTarget(task)] = IF res.err THEN "" ELSE "value"]
    /\ NextTask
    /\ UNCHANGED <<storeVars, otherVars, expVars, mainVars, sPc, listener, wait, consent,
                   ctxDone, page, api, runErr>>

\* setConsent: the three calls of evaluateJSAndGetInteger, one per step; an
\* error of any of them is returned.  After the third, the consent string is
\* built and assigned to *tcString.
SetConsentRead(res) ==
    /\ sPc = "tasks"
    /\ task <= Len(Tasks)
    /\ Tasks[task] = "setConsent"
    /\ phase \in {"start", "cmpVer", "gvlVer"}
    /\ res \in IntOutcomes
    /\ started' = IF phase = "start" THEN Append(started, Tasks[task]) ELSE started
    /\ LET r == evaluateJSAndGetInteger(res,
                    IF phase = "start" THEN <<>>
                    ELSE IF phase = "cmpVer" THEN <<DefaultCmpVersion>>
                    ELSE <<DefaultGvlVersion>>)
       IN  IF r.err
           THEN RunFails("script") /\ UNCHANGED consent
           ELSE /\ consent' = IF phase = "start" THEN [consent EXCEPT !.cmpId = r.val]
                              ELSE IF phase = "cmpVer" THEN [consent EXCEPT !.cmpVer = r.val]
                              ELSE [consent EXCEPT !.gvlVer = r.val, !.built = TRUE]
                /\ phase' = IF phase = "start" THEN "cmpVer"
                            ELSE IF phase = "cmpVer" THEN "gvlVer" ELSE "store"
                /\ UNCHANGED <<sPc, task, runErr>>
    /\ UNCHANGED <<storeVars, otherVars, expVars, mainVars, listener, wait, ctxDone, page,
                   api, reads>>

\* the places of the browser the consent string goes to
ConsentLocations ==
    {"cookie euconsent-v2", "cookie eupubconsent-v2",
     "localStorage euconsent-v2", "localStorage eupubconsent-v2"}

\* jsActions without its last script
jsActionsShort ==
    << {"cookie euconsent-v2", "cookie eupubconsent-v2"}, {"localStorage euconsent-v2"} >>

\* storeConsentInBrowser: jsActions, each script as the set of places it
\* writes consentString to
jsActions ==
    << {"cookie euconsent-v2", "cookie eupubconsent-v2"}, {"localStorage euconsent-v2"},
       {"localStorage eupubconsent-v2"} >>

\* the places written once the first n scripts of jsActions have run
Written(n) == UNION { jsActions[k] : k \in 1..n }

\* storeConsentInBrowser: one of the three scripts of jsActions; an error is
\* returned, after the third setConsent returns nil
StoreConsentInBrowser(res) ==
    /\ sPc = "tasks"
    /\ phase = "store"
    /\ res \in PlainOutcomes
    /\ IF res.err
       THEN RunFails("script") /\ UNCHANGED consent
       ELSE /\ consent' = [consent EXCEPT !.stored = consent.stored + 1]
            /\ IF consent.stored + 1 = Len(jsActions) THEN NextTask ELSE UNCHANGED <<task, phase>>
            /\ UNCHANGED <<sPc, runErr>>
    /\ UNCHANGED <<storeVars, otherVars, expVars, mainVars, listener, wait, ctxDone, page,
                   api, started, reads>>

\* chromedp.Run has executed every task and returns nil
TasksDone ==
    /\ sPc = "tasks"
    /\ task = Len(Tasks) + 1
    /\ sPc' = "returned"
    /\ UNCHANGED <<storeVars, otherVars, expVars, mainVars, listener, task, phase, wait,
                   consent, ctxDone, page, api, started, runErr, reads>>

\* the page: the platform's script defines window.__tcfapi, and later has its data
PageLoads(to) ==
    /\ sPc = "tasks"
    /\ page = "cmp"
    /\ task > 2 /\ task <= Len(Tasks)
    /\ \/ api = "none" /\ to \in {"defined", "ready"}
       \/ api = "defined" /\ to = "ready"
    /\ api' = to
    /\ UNCHANGED <<storeVars, otherVars, expVars, mainVars, sPc, listener, task, phase,
                   wait, consent, ctxDone, page, started, runErr, reads>>

\* the deadline of timeoutCtx (RunTimeout) passes
CtxTimeout ==
    /\ sPc = "tasks"
    /\ ~ctxDone
    /\ ctxDone' = TRUE
    /\ UNCHANGED <<storeVars, otherVars, expVars, mainVars, sPc, listener, task, phase,
                   wait, consent, page, api, started, runErr, reads>>

SessionInit ==
    /\ sPc = "listen"
    /\ listener = "unset"
    /\ task = 1
    /\ phase = "start"
    /\ wait = NoWait
    /\ consent = NoConsent
    /\ ctxDone = FALSE
    /\ page \in {"cmp", "noCmp"}
    /\ api = "none"
    /\ started = <<>>
    /\ runErr = "none"
    /\ reads = NoReads
    /\ cookies = <<>>
    /\ mu = 0
    /\ wg = 0
    /\ cb = [p \in Callbacks |-> IdleCallback]
    /\ nSetCookies = 0
    /\ runPc = "browse"
    /\ retCookies = NotRead
    /\ attached = <<>>
    /\ upserts = {}
    /\ reqHost = <<>>
    /\ runResult = NoRunResult
    /\ rowFlags = NoRowFlags
    /\ ping = NoPing
    /\ tcData = NoTcData
    /\ proxies = <<>>
    /\ browsers = <<>>
    /\ stores = <<>>
    /\ cookieDomain = <<>>
    /\ vendorDomain = <<>>
    /\ domainMatched = NotMatched
    /\ expCookie = NilCookie
    /\ now = 1
    /\ expResult = NoResult
    /\ domains = 0
    /\ fileHandle = "unset"
    /\ progressFile = [exists |-> FALSE, data |-> <<>>]
    /\ outFile = <<>>
    /\ wbuf = <<>>
    /\ pc = "idle"
    /\ index = 0
    /\ lastProcessedIndex = 0
    /\ runCookies = <<>>
    /\ ci = 0
    /\ runNo = 0
    /\ processed = <<>>
    /\ saved = <<>>
    /\ loads = <<>>
    /\ prev = NoPrev

\* the steps of the goroutine that executes run and runChromedp
SessionStep ==
    \/ \E ok \in BOOLEAN : Listen(ok)
    \/ DeferListenerClose
    \/ \E res \in Evals : BrowserCommand(res)
    \/ WaitStart
    \/ \E r1 \in BoolEvals, r2 \in Evals, d \in TCFWaitInterval..MaxRoundTime :
          WaitRound(r1, r2, d)
    \/ \E res \in Evals : ReadTask(res)
    \/ \E res \in Evals : SetConsentRead(res)
    \/ \E res \in Evals : StoreConsentInBrowser(res)
    \/ TasksDone

SessionNext ==
    \/ \E ok \in BOOLEAN : Listen(ok)
    \/ DeferListenerClose
    \/ \E res \in Evals : BrowserCommand(res)
    \/ WaitStart
    \/ \E r1 \in BoolEvals, r2 \in Evals, d \in TCFWaitInterval..MaxRoundTime :
          WaitRound(r1, r2, d)
    \/ \E res \in Evals : ReadTask(res)
    \/ \E res \in Evals : SetConsentRead(res)
    \/ \E res \in Evals : StoreConsentInBrowser(res)
    \/ TasksDone
    \/ \E to \in {"defined", "ready"} : PageLoads(to)
    \/ CtxTimeout

---------------------------------------------------------------------------
(* The session of part_000: setConsent written inline, log.Fatal on a failed
   injection script; the other tasks are those of part_001 *)

\* setConsent of part_000: cmpIDJS and cmpVerJS are evaluated, an error of
\* either is returned, -1 gives the default (0, 1).  The action for gvlVerJS
\* is constructed and never executed (no .Do), so gvlVer keeps -1 and the
\* vendor list version is the default.
SetConsentRead_p0(res) ==
    /\ sPc = "tasks"
    /\ task <= Len(Tasks)
    /\ Tasks[task] = "setConsent"
    /\ phase \in {"start", "cmpVer"}
    /\ res \in IntOutcomes
    /\ started' = IF phase = "start" THEN Append(started, Tasks[task]) ELSE started
    /\ IF res.err
       THEN RunFails("script") /\ UNCHANGED consent
       ELSE /\ consent' =
                 IF phase = "start"
                 THEN [consent EXCEPT !.cmpId = IF res.value # -1 THEN res.value ELSE 0]
                 ELSE [consent EXCEPT
                         !.cmpVer = IF res.value # -1 THEN res.value
                                    ELSE DefaultCmpVersion,
                         !.gvlVer = DefaultGvlVersion]
            /\ phase' = IF phase = "start" THEN "cmpVer" ELSE "store"
            /\ UNCHANGED <<sPc, task, runErr>>
    /\ UNCHANGED <<storeVars, otherVars, expVars, mainVars, listener, wait, ctxDone, page,
                   api, reads>>

\* setConsent of part_000: cookieJS, localStorageJS, localStorageJSv2; an
\* error of any of them is handed to log.Fatal, which ends the process; after
\* the third the string is assigned to *tcString
StoreConsentInBrowser_p0(res) ==
    /\ sPc = "tasks"
    /\ phase = "store"
    /\ res \in PlainOutcomes
    /\ IF res.err
       THEN /\ sPc' = "fatal"
            /\ UNCHANGED <<consent, task, phase>>
       ELSE /\ consent' = [consent EXCEPT !.stored = consent.stored + 1,
                                          !.built = (consent.stored + 1 = 3)]
            /\ IF consent.stored + 1 = 3 THEN NextTask ELSE UNCHANGED <<task, phase>>
            /\ UNCHANGED sPc
    /\ UNCHANGED <<storeVars, otherVars, expVars, mainVars, listener, wait, ctxDone, page,
                   api, started, runErr, reads>>

SessionNext_p0 ==
    \/ \E ok \in BOOLEAN : Listen(ok)
    \/ DeferListenerClose
    \/ \E res \in Evals : BrowserCommand(res)
    \/ WaitStart
    \/ \E r1 \in BoolEvals, r2 \in Evals, d \in TCFWaitInterval..MaxRoundTime :
          WaitRound(r1, r2, d)
    \/ \E res \in Evals : ReadTask(res)
    \/ \E res \in Evals : SetConsentRead_p0(res)
    \/ \E res \in Evals : StoreConsentInBrowser_p0(res)
    \/ TasksDone
    \/ \E to \in {"defined", "ready"} : PageLoads(to)
    \/ CtxTimeout

---------------------------------------------------------------------------
(* The row loop of main on longer cookie lists *)

\* the cookies of the lists: the two of RunCookieSet and one whose Expires
\* lies inside the range of the clock
RowCookieSet == RunCookieSet \cup { Cookie("old", "t.ex", 1, "/", 2, 0) }

\* main has called run for the only domain of the list and got cs back
RowsInit ==
    /\ cookies = <<>>
    /\ mu = 0
    /\ wg = 0
    /\ cb = [p \in Callbacks |-> IdleCallback]
    /\ nSetCookies = 0
    /\ runPc = "browse"
    /\ retCookies = NotRead
    /\ attached = <<>>
    /\ upserts = {}
    /\ reqHost = <<>>
    /\ runResult = NoRunResult
    /\ rowFlags = NoRowFlags
    /\ ping = NoPing
    /\ tcData = NoTcData
    /\ proxies = <<>>
    /\ browsers = <<>>
    /\ stores = <<>>
    /\ cookieDomain = <<>>
    /\ vendorDomain = <<>>
    /\ domainMatched = NotMatched
    /\ sPc = "idle"
    /\ listener = "unset"
    /\ task = 1
    /\ phase = "start"
    /\ wait = NoWait
    /\ consent = NoConsent
    /\ ctxDone = FALSE
    /\ page = "noCmp"
    /\ api = "none"
    /\ started = <<>>
    /\ runErr = "none"
    /\ reads = NoReads
    /\ expCookie = NilCookie
    /\ now \in 1..MaxTime
    /\ expResult = NoResult
    /\ domains = 1
    /\ fileHandle = "open"
    /\ progressFile = [exists |-> FALSE, data |-> <<>>]
    /\ outFile = <<HeaderRow>>
    /\ wbuf = <<>>
    /\ pc = "rows"
    /\ index = 0
    /\ lastProcessedIndex = 0
    /\ runCookies \in SeqsUpTo(RowCookieSet, MaxRowCookies)
    /\ ci = 0
    /\ runNo = 1
    /\ processed = <<0>>
    /\ saved = <<>>
    /\ loads = <<[exists |-> FALSE, data |-> <<>>]>>
    /\ prev = NoPrev

RowsNext ==
    \/ WriteRow
    \/ FlushRow
    \/ SkipExpired
    \/ SaveCreate
    \/ SaveWrite
    \/ CancelCtx

---------------------------------------------------------------------------
(* The derived columns of a row: StringsEqual and Status Updated *)

\* strings.Index(s, c) for a separator of one character: the position,
\* counted from 0, of the first c in s, -1 when there is none
Index(s, c) ==
    IF \A k \in 1..Len(s) : s[k] # c THEN -1
    ELSE (CHOOSE k \in 1..Len(s) : s[k] = c /\ \A j \in 1..(k - 1) : s[j] # c) - 1

\* the element after the last separator
SplitLast(s, c) ==
    LET dots == { k \in 1..Len(s) : s[k] = c }
    IN  IF dots = {} THEN s
        ELSE SubSeq(s, (CHOOSE k \in dots : \A j \in dots : j <= k) + 1, Len(s))

\* strings.Split(s, c)[0]: s up to its first separator, s itself without one
SplitFirst(s, c) ==
    LET m == Index(s, c) IN IF m < 0 THEN s ELSE SubSeq(s, 1, m)

\* fmt.Sprint of a bool
Sprint(b) == IF b THEN "true" ELSE "false"

\* the characters of a consent string: two of the alphabet and the separator
StrChars == {"a", "b", "."}

\* the event statuses a page reports, "" when the read failed
EventStatuses == {"", "tcloaded", "useractioncomplete"}

\* what run may return besides the cookies
RunResults ==
    [tcString : SeqsUpTo(StrChars, MaxStrLen), apiTcString : SeqsUpTo(StrChars, MaxStrLen),
     eventStatusBeforeRL : EventStatuses, eventStatusAfterRL : EventStatuses]

\* main, writer.Write: the columns StringsEqual and Status Updated of a row
WriteRowFlags ==
    /\ ~rowFlags.written
    /\ rowFlags' =
         [written |-> TRUE,
          stringsEqual |-> Sprint(SplitFirst(runResult.tcString, ".")
                                    = SplitFirst(runResult.apiTcString, ".")),
          statusUpdated |-> Sprint(runResult.eventStatusBeforeRL
                                     # runResult.eventStatusAfterRL)]
    /\ UNCHANGED <<storeVars, reqVars, gvlVars, metaVars, batchVars, sessVars, expVars, mainVars,
                   runResult>>

DerivedInit ==
    /\ cookies = <<>>
    /\ mu = 0
    /\ wg = 0
    /\ cb = [p \in Callbacks |-> IdleCallback]
    /\ nSetCookies = 0
    /\ runPc = "browse"
    /\ retCookies = NotRead
    /\ attached = <<>>
    /\ upserts = {}
    /\ reqHost = <<>>
    /\ runResult \in RunResults
    /\ rowFlags = NoRowFlags
    /\ ping = NoPing
    /\ tcData = NoTcData
    /\ proxies = <<>>
    /\ browsers = <<>>
    /\ stores = <<>>
    /\ cookieDomain = <<>>
    /\ vendorDomain = <<>>
    /\ domainMatched = NotMatched
    /\ sPc = "idle"
    /\ listener = "unset"
    /\ task = 1
    /\ phase = "start"
    /\ wait = NoWait
    /\ consent = NoConsent
    /\ ctxDone = FALSE
    /\ page = "noCmp"
    /\ api = "none"
    /\ started = <<>>
    /\ runErr = "none"
    /\ reads = NoReads
    /\ expCookie = NilCookie
    /\ now = 1
    /\ expResult = NoResult
    /\ domains = 0
    /\ fileHandle = "unset"
    /\ progressFile = [exists |-> FALSE, data |-> <<>>]
    /\ outFile = <<>>
    /\ wbuf = <<>>
    /\ pc = "idle"
    /\ index = 0
    /\ lastProcessedIndex = 0
    /\ runCookies = <<>>
    /\ ci = 0
    /\ runNo = 0
    /\ processed = <<>>
    /\ saved = <<>>
    /\ loads = <<>>
    /\ prev = NoPrev

DerivedNext ==
    \/ WriteRowFlags

---------------------------------------------------------------------------
(* The consent metadata: from the PingReturn of the page to the CoreString,
   in the chromedp runners (part_001, part_000) and the selenium runner
   (part_002) *)

\* a field the page does not report: the script yields no number, and the
\* variable the result is read into keeps what it held (-1, or nil)
NoValue == -1

\* the values of a field of PingReturn
PingValues == {NoValue, 1, 2, PageCmpId}

\* cmpIDJS, cmpVerJS, gvlVerJS of part_001 and part_000: the value each script
\* yields when the ping answers at once
cmpIDJS(p) == p.cmpId

cmpVerJS(p) == p.cmpVersion

gvlVerJS(p) == p.gvlVersion

\* cmpVerJS of part_002: cmpv = PingReturn.cmpId
cmpVerJS_p2(p) == p.cmpId

\* parseIntegerResult of part_002
parseIntegerResult(value, defaultValue) ==
    IF value # NoValue THEN value ELSE defaultValue

\* the default of the vendor list version in part_002
DefaultGvlVersion_p2 == 133

\* setConsent of part_001 when no evaluation fails: the three reads and
\* buildTCData
BuildTCData ==
    /\ tcData.variant = "none"
    /\ tcData' =
         [variant |-> "part_001",
          CmpId |-> evaluateJSAndGetInteger(EvalOk(cmpIDJS(ping)), <<>>).val,
          CmpVersion |->
              evaluateJSAndGetInteger(EvalOk(cmpVerJS(ping)), <<DefaultCmpVersion>>).val,
          VendorListVersion |->
              evaluateJSAndGetInteger(EvalOk(gvlVerJS(ping)), <<DefaultGvlVersion>>).val]
    /\ UNCHANGED <<storeVars, reqVars, gvlVars, derivedVars, batchVars, sessVars, expVars, mainVars,
                   ping>>

\* setConsent of part_000 when no evaluation fails: cmpID and cmpVer are
\* read; chromedp.Evaluate(gvlVerJS, &gvlVer) is not executed, gvlVer stays -1
BuildTCData_p0 ==
    /\ tcData.variant = "none"
    /\ LET cmpID  == cmpIDJS(ping)
           cmpVer == cmpVerJS(ping)
           gvlVer == -1
       IN  tcData' =
             [variant |-> "part_000",
              CmpId |-> IF cmpID # -1 THEN cmpID ELSE 0,
              CmpVersion |-> IF cmpVer # -1 THEN cmpVer ELSE DefaultCmpVersion,
              VendorListVersion |-> IF gvlVer # -1 THEN gvlVer ELSE DefaultGvlVersion]
    /\ UNCHANGED <<storeVars, reqVars, gvlVars, derivedVars, batchVars, sessVars, expVars, mainVars,
                   ping>>

\* main of part_002 when no script fails: the three reads and
\* generateAndSetTCData
BuildTCData_p2 ==
    /\ tcData.variant = "none"
    /\ tcData' =
         [variant |-> "part_002",
          CmpId |-> parseIntegerResult(cmpIDJS(ping), 0),
          CmpVersion |-> parseIntegerResult(cmpVerJS_p2(ping), DefaultCmpVersion),
          VendorListVersion |-> parseIntegerResult(gvlVerJS(ping), DefaultGvlVersion_p2)]
    /\ UNCHANGED <<storeVars, reqVars, gvlVars, derivedVars, batchVars, sessVars, expVars, mainVars,
                   ping>>

MetadataInit ==
    /\ cookies = <<>>
    /\ mu = 0
    /\ wg = 0
    /\ cb = [p \in Callbacks |-> IdleCallback]
    /\ nSetCookies = 0
    /\ runPc = "browse"
    /\ retCookies = NotRead
    /\ attached = <<>>
    /\ upserts = {}
    /\ reqHost = <<>>
    /\ runResult = NoRunResult
    /\ rowFlags = NoRowFlags
    /\ ping \in [cmpId : PingValues, cmpVersion : PingValues, gvlVersion : PingValues]
    /\ tcData = NoTcData
    /\ proxies = <<>>
    /\ browsers = <<>>
    /\ stores = <<>>
    /\ cookieDomain = <<>>
    /\ vendorDomain = <<>>
    /\ domainMatched = NotMatched
    /\ sPc = "idle"
    /\ listener = "unset"
    /\ task = 1
    /\ phase = "start"
    /\ wait = NoWait
    /\ consent = NoConsent
    /\ ctxDone = FALSE
    /\ page = "noCmp"
    /\ api = "none"
    /\ started = <<>>
    /\ runErr = "none"
    /\ reads = NoReads
    /\ expCookie = NilCookie
    /\ now = 1
    /\ expResult = NoResult
    /\ domains = 0
    /\ fileHandle = "unset"
    /\ progressFile = [exists |-> FALSE, data |-> <<>>]
    /\ outFile = <<>>
    /\ wbuf = <<>>
    /\ pc = "idle"
    /\ index = 0
    /\ lastProcessedIndex = 0
    /\ runCookies = <<>>
    /\ ci = 0
    /\ runNo = 0
    /\ processed = <<>>
    /\ saved = <<>>
    /\ loads = <<>>
    /\ prev = NoPrev

MetadataNext ==
    \/ BuildTCData
    \/ BuildTCData_p0
    \/ BuildTCData_p2

---------------------------------------------------------------------------
(* The batch: the proxy, the browser and the cookie slice of each domain, from
   the domain loop of main and the body and the deferred calls of run *)

\* the names of the cookies the sites set
BatchNames == {"id", "sid"}

\* the cookie called n that the site visited by browser j answers with: its
\* value tells the visit
VisitCookie(n, j) == Cookie(n, "t.ex", j, "/", MaxTime, 0)

\* the row main writes for cookie c of the list run returned for domain d
BatchRow(d, c) == [run |-> 1, dom |-> d, name |-> c.name, value |-> c.value]

\* a proxy that does not exist yet
NoProxy == [state |-> "none", conns |-> {}]

\* the slice of a call of run, were cookies a variable of the package
CarriedStore(s, i) == IF i = 0 THEN <<>> ELSE s[i - 1]

\* run: var cookies []*http.Cookie, a nil slice local to the call
FreshStore(s, i) == <<>>

\* the domain loop: createDomainContext; the browser is launched by the
\* first chromedp.Run on the context
BatchCreateContext ==
    /\ pc = "loop"
    /\ index < domains
    /\ pc' = "run"
    /\ UNCHANGED <<storeVars, reqVars, gvlVars, derivedVars, metaVars, batchVars, sessVars, expVars,
                   fileHandle, domains, progressFile, outFile, wbuf, index,
                   lastProcessedIndex, runCookies, ci, runNo, processed, saved, loads, prev>>

\* run: the slice, initializeProxyServer and the two handlers
BatchInitProxy ==
    /\ pc = "run"
    /\ stores' = [stores EXCEPT ![index] = FreshStore(stores, index)]
    /\ processed' = Append(processed, index)
    /\ pc' = "listen"
    /\ UNCHANGED <<storeVars, reqVars, gvlVars, derivedVars, metaVars, proxies, browsers, sessVars,
                   expVars, fileHandle, domains, progressFile, outFile, wbuf, index,
                   lastProcessedIndex, runCookies, ci, runNo, saved, loads, prev>>

\* run: net.Listen("tcp", proxyAddr), which fails while the address is bound,
\* and may fail otherwise; after a failure the deferred listener.Close()
\* panics; else server.Serve runs in its goroutine
BatchListen(ok) ==
    /\ pc = "listen"
    /\ ok => \A i \in DOMAIN proxies : proxies[i].state # "listening"
    /\ proxies' = IF ok THEN [proxies EXCEPT ![index].state = "listening"] ELSE proxies
    /\ pc' = IF ok THEN "tasks" ELSE "panic"
    /\ UNCHANGED <<storeVars, reqVars, gvlVars, derivedVars, metaVars, browsers, stores, sessVars,
                   expVars, fileHandle, domains, progressFile, outFile, wbuf, index,
                   lastProcessedIndex, runCookies, ci, runNo, processed, saved, loads, prev>>

\* runChromedp: chromedp.Run allocates the browser of the context, unless the
\* launch fails
BatchLaunch(ok) ==
    /\ pc = "tasks"
    /\ browsers[index] = "none"
    /\ browsers' = [browsers EXCEPT ![index] = IF ok THEN "alive" ELSE "failed"]
    /\ UNCHANGED <<storeVars, reqVars, gvlVars, derivedVars, metaVars, proxies, stores, sessVars,
                   expVars, mainVars>>

\* a browser that is alive connects to the proxy address: the connection is
\* accepted by the server that listens there
BatchConnect(j, i) ==
    /\ j \in DOMAIN browsers /\ i \in DOMAIN proxies
    /\ browsers[j] = "alive"
    /\ proxies[i].state = "listening"
    /\ j \notin proxies[i].conns
    /\ proxies' = [proxies EXCEPT ![i].conns = @ \cup {j}]
    /\ UNCHANGED <<storeVars, reqVars, gvlVars, derivedVars, metaVars, browsers, stores, sessVars,
                   expVars, mainVars>>

\* OnResponse of proxy i for a response on a connection of browser j, with a
\* Set-Cookie header of a third party: updateCookieList on the slice of the
\* call of run that made the proxy.  Connections the proxy has hijacked
\* outlive its shutdown, so the callback may come after run returned
BatchCapture(j, i, n) ==
    /\ i \in DOMAIN proxies
    /\ j \in proxies[i].conns
    /\ LET newCookie == VisitCookie(n, j)
           hit       == FindCookie(stores[i], newCookie)
       IN  /\ hit.found \/ Len(stores[i]) < MaxBatchCookies
           /\ StoreCookie(stores[i], newCookie, hit.found, hit.index) # stores[i]
           /\ stores' = [stores EXCEPT
                           ![i] = StoreCookie(@, newCookie, hit.found, hit.index)]
    /\ UNCHANGED <<storeVars, reqVars, gvlVars, derivedVars, metaVars, proxies, browsers, sessVars,
                   expVars, mainVars>>

\* run returns the slice; its deferred calls shut the server down and close
\* the listener.  The browser is killed when the context of runChromedp is
\* cancelled, and is gone for certain only after cancelCtx
BatchRunReturn ==
    /\ pc = "tasks"
    /\ browsers[index] # "none"
    /\ runCookies' = stores[index]
    /\ ci' = 0
    /\ proxies' = [proxies EXCEPT ![index].state = "closed"]
    /\ pc' = "rows"
    /\ UNCHANGED <<storeVars, reqVars, gvlVars, derivedVars, metaVars, browsers, stores, sessVars,
                   expVars, fileHandle, domains, progressFile, outFile, wbuf, index,
                   lastProcessedIndex, runNo, processed, saved, loads, prev>>

\* the row loop: writer.Write and writer.Flush for a cookie that is not
\* expired
BatchWriteRow ==
    /\ pc = "rows"
    /\ ci < Len(runCookies)
    /\ RowWanted(runCookies[ci + 1], now)
    /\ outFile' = Append(outFile, BatchRow(index, runCookies[ci + 1]))
    /\ ci' = ci + 1
    /\ UNCHANGED <<storeVars, reqVars, gvlVars, derivedVars, metaVars, batchVars, sessVars, expVars,
                   fileHandle, domains, progressFile, wbuf, pc, index, lastProcessedIndex,
                   runCookies, runNo, processed, saved, loads, prev>>

\* saveProgress(index + 1) and cancelCtx(), which returns when the browser of
\* the context has exited; the loop goes to the next record
BatchCancelCtx ==
    /\ pc = "rows"
    /\ ci = Len(runCookies)
    /\ progressFile' = saveProgressWrite(saveProgressCreate(progressFile),
                                         NextCheckpoint(index))
    /\ saved' = Append(saved, NextCheckpoint(index))
    /\ browsers' = [browsers EXCEPT ![index] = "closed"]
    /\ index' = index + 1
    /\ pc' = "loop"
    /\ UNCHANGED <<storeVars, reqVars, gvlVars, derivedVars, metaVars, proxies, stores, sessVars,
                   expVars, fileHandle, domains, outFile, wbuf, lastProcessedIndex,
                   runCookies, ci, runNo, processed, loads, prev>>

\* the list is exhausted: saveProgress(0), and main returns
BatchDone ==
    /\ pc = "loop"
    /\ index = domains
    /\ progressFile' = saveProgressWrite(saveProgressCreate(progressFile), 0)
    /\ saved' = Append(saved, 0)
    /\ pc' = "done"
    /\ UNCHANGED <<storeVars, reqVars, gvlVars, derivedVars, metaVars, batchVars, sessVars, expVars,
                   fileHandle, domains, outFile, wbuf, index, lastProcessedIndex,
                   runCookies, ci, runNo, processed, loads, prev>>

\* main has opened the output file and loaded the checkpoint 0
BatchInit ==
    /\ cookies = <<>>
    /\ mu = 0
    /\ wg = 0
    /\ cb = [p \in Callbacks |-> IdleCallback]
    /\ nSetCookies = 0
    /\ runPc = "browse"
    /\ retCookies = NotRead
    /\ attached = <<>>
    /\ upserts = {}
    /\ reqHost = <<>>
    /\ runResult = NoRunResult
    /\ rowFlags = NoRowFlags
    /\ ping = NoPing
    /\ tcData = NoTcData
    /\ proxies = [i \in 0..(MaxDomains - 1) |-> NoProxy]
    /\ browsers = [i \in 0..(MaxDomains - 1) |-> "none"]
    /\ stores = [i \in 0..(MaxDomains - 1) |-> <<>>]
    /\ cookieDomain = <<>>
    /\ vendorDomain = <<>>
    /\ domainMatched = NotMatched
    /\ sPc = "idle"
    /\ listener = "unset"
    /\ task = 1
    /\ phase = "start"
    /\ wait = NoWait
    /\ consent = NoConsent
    /\ ctxDone = FALSE
    /\ page = "noCmp"
    /\ api = "none"
    /\ started = <<>>
    /\ runErr = "none"
    /\ reads = NoReads
    /\ expCookie = NilCookie
    /\ now = 1
    /\ expResult = NoResult
    /\ domains \in 1..MaxDomains
    /\ fileHandle = "open"
    /\ progressFile = [exists |-> FALSE, data |-> <<>>]
    /\ outFile = <<HeaderRow>>
    /\ wbuf = <<>>
    /\ pc = "loop"
    /\ index = 0
    /\ lastProcessedIndex = 0
    /\ runCookies = <<>>
    /\ ci = 0
    /\ runNo = 1
    /\ processed = <<>>
    /\ saved = <<>>
    /\ loads = <<[exists |-> FALSE, data |-> <<>>]>>
    /\ prev = NoPrev

BatchNext ==
    \/ BatchCreateContext
    \/ BatchInitProxy
    \/ \E ok \in BOOLEAN : BatchListen(ok)
    \/ \E ok \in BOOLEAN : BatchLaunch(ok)
    \/ \E j, i \in 0..(MaxDomains - 1) : BatchConnect(j, i)
    \/ \E j, i \in 0..(MaxDomains - 1), n \in BatchNames : BatchCapture(j, i, n)
    \/ BatchRunReturn
    \/ BatchWriteRow
    \/ BatchCancelCtx
    \/ BatchDone

---------------------------------------------------------------------------
(* The upsert on its own: the third-party responses of one run, handled one
   after another, by updateCookieList of part_001 and by the loop body of the
   OnResponse callback of part_000 *)

\* URL.Host of the third parties that answer with Set-Cookie headers
ThirdPartyHosts == { <<"t", ".", "e", "x">>, <<"u", ".", "e", "x">> }

\* value, path, expiry and max-age of the cookies they set
CookieAttributes ==
    { <<v, a[1], a[2], a[3]>> : v \in CookieValues,
                                a \in { <<"/", ZeroTime, 0>>, <<"/a", 2, 0>>, <<"/", 2, 5>> } }

\* the elements of resp.Cookies(): Domain is "" when the header has no Domain
\* attribute
UpsertCookies ==
    { Cookie(i[1], i[2], a[1], a[2], a[3], a[4]) : i \in CookieIdentities,
                                                   a \in CookieAttributes }

\* the observations so far, the latest of each host for each name and domain
Observed(h, host, c) ==
    { o \in h : ~(o.host = host /\ Identity(o.cookie) = Identity(c)) }
        \cup { [host |-> host, cookie |-> c] }

\* OnResponse of part_001 for one cookie of a third-party response:
\* updateCookieList, from mu.Lock() to the deferred mu.Unlock()
UpdateCookieList(host, newCookie) ==
    /\ nSetCookies < MaxUpsertCalls
    /\ ~Contains(host, TargetURL)
    /\ LET r == FindCookie(cookies, newCookie)
       IN  /\ cookies' = StoreCookie(cookies, newCookie, r.found, r.index)
           /\ cb' = [cb EXCEPT ![1] = [pc |-> "stored", newCookie |-> newCookie,
                                       found |-> r.found, index |-> r.index]]
    /\ upserts' = Observed(upserts, host, newCookie)
    /\ nSetCookies' = nSetCookies + 1
    /\ UNCHANGED <<otherVars, sessVars, expVars, mainVars, mu, wg, runPc, retCookies,
                   attached>>

\* OnResponse of part_000 for one cookie of a third-party response: the search
\* for existingCookie, then the append or existingCookie.Value = newCookie.Value
UpdateInline_p0(host, newCookie) ==
    /\ nSetCookies < MaxUpsertCalls
    /\ ~Contains(host, TargetURL)
    /\ LET r == FindCookie(cookies, newCookie)
       IN  /\ cookies' = IF ~r.found THEN Append(cookies, newCookie)
                         ELSE [cookies EXCEPT ![r.index].value = newCookie.value]
           /\ cb' = [cb EXCEPT ![1] = [pc |-> "stored_p0", newCookie |-> newCookie,
                                       found |-> r.found, index |-> r.index]]
    /\ upserts' = Observed(upserts, host, newCookie)
    /\ nSetCookies' = nSetCookies + 1
    /\ UNCHANGED <<otherVars, sessVars, expVars, mainVars, mu, wg, runPc, retCookies,
                   attached>>

\* run has started the proxy; no response has arrived
UpsertInit ==
    /\ cookies = <<>>
    /\ mu = 0
    /\ wg = 0
    /\ cb = [p \in Callbacks |-> IdleCallback]
    /\ nSetCookies = 0
    /\ runPc = "browse"
    /\ retCookies = NotRead
    /\ attached = <<>>
    /\ upserts = {}
    /\ reqHost = <<>>
    /\ runResult = NoRunResult
    /\ rowFlags = NoRowFlags
    /\ ping = NoPing
    /\ tcData = NoTcData
    /\ proxies = <<>>
    /\ browsers = <<>>
    /\ stores = <<>>
    /\ cookieDomain = <<>>
    /\ vendorDomain = <<>>
    /\ domainMatched = NotMatched
    /\ sPc = "idle"
    /\ listener = "unset"
    /\ task = 1
    /\ phase = "start"
    /\ wait = NoWait
    /\ consent = NoConsent
    /\ ctxDone = FALSE
    /\ page = "noCmp"
    /\ api = "none"
    /\ started = <<>>
    /\ runErr = "none"
    /\ reads = NoReads
    /\ expCookie = NilCookie
    /\ now = 1
    /\ expResult = NoResult
    /\ domains = 0
    /\ fileHandle = "unset"
    /\ progressFile = [exists |-> FALSE, data |-> <<>>]
    /\ outFile = <<>>
    /\ wbuf = <<>>
    /\ pc = "idle"
    /\ index = 0
    /\ lastProcessedIndex = 0
    /\ runCookies = <<>>
    /\ ci = 0
    /\ runNo = 0
    /\ processed = <<>>
    /\ saved = <<>>
    /\ loads = <<>>
    /\ prev = NoPrev

UpsertNext ==
    \/ \E host \in ThirdPartyHosts, newCookie \in UpsertCookies :
          UpdateCookieList(host, newCookie)

UpsertNext_p0 ==
    \/ \E host \in ThirdPartyHosts, newCookie \in UpsertCookies :
          UpdateInline_p0(host, newCookie)

---------------------------------------------------------------------------
(* The domain loop of main with the ways a call of run ends: it returns,
   whatever chromedp.Run reported, or the process panics at the deferred
   listener.Close() *)

\* what runChromedp logged: no error, the error of a browser command or of a
\* script, or the expiry of the context
RunErrors == {"none", "command", "script", "timeout"}

\* the domain loop: createDomainContext and the call run(targetURL, ctx)
VisitStart ==
    /\ pc = "loop"
    /\ index < domains
    /\ ~AlreadyProcessed(index, lastProcessedIndex)
    /\ processed' = Append(processed, index)
    /\ pc' = "run"
    /\ sPc' = "listen"
    /\ listener' = "unset"
    /\ runErr' = "none"
    /\ UNCHANGED <<storeVars, otherVars, expVars, task, phase, wait, consent, ctxDone, page,
                   api, started, reads, fileHandle, domains, progressFile, outFile, wbuf,
                   index, lastProcessedIndex, runCookies, ci, runNo, saved, loads, prev>>

\* runChromedp logs the error of chromedp.Run, if any, and returns; run
\* returns the cookies to main
VisitReturn(err, cs) ==
    /\ pc = "run"
    /\ sPc = "tasks"
    /\ runErr' = err
    /\ sPc' = "returned"
    /\ runCookies' = cs
    /\ ci' = 0
    /\ pc' = "rows"
    /\ UNCHANGED <<storeVars, otherVars, expVars, listener, task, phase, wait, consent,
                   ctxDone, page, api, started, reads, fileHandle, domains, progressFile,
                   outFile, wbuf, index, lastProcessedIndex, runNo, processed, saved, loads,
                   prev>>

\* the panic of run ends the process: its memory is lost, the files stay
VisitPanic ==
    /\ pc = "run"
    /\ sPc = "panic"
    /\ prev' = [kind |-> "panicked", cur |-> index, processed |-> processed]
    /\ pc' = "crashed"
    /\ sPc' = "idle"
    /\ wbuf' = <<>>
    /\ index' = 0
    /\ lastProcessedIndex' = 0
    /\ runCookies' = <<>>
    /\ ci' = 0
    /\ processed' = <<>>
    /\ saved' = <<>>
    /\ loads' = <<>>
    /\ fileHandle' = "unset"
    /\ UNCHANGED <<storeVars, otherVars, expVars, listener, task, phase, wait, consent,
                   ctxDone, page, api, started, runErr, reads, domains, progressFile,
                   outFile, runNo>>

\* the first start of main on a list of domains, without a checkpoint file
VisitsInit ==
    /\ cookies = <<>>
    /\ mu = 0
    /\ wg = 0
    /\ cb = [p \in Callbacks |-> IdleCallback]
    /\ nSetCookies = 0
    /\ runPc = "browse"
    /\ retCookies = NotRead
    /\ attached = <<>>
    /\ upserts = {}
    /\ reqHost = <<>>
    /\ runResult = NoRunResult
    /\ rowFlags = NoRowFlags
    /\ ping = NoPing
    /\ tcData = NoTcData
    /\ proxies = <<>>
    /\ browsers = <<>>
    /\ stores = <<>>
    /\ cookieDomain = <<>>
    /\ vendorDomain = <<>>
    /\ domainMatched = NotMatched
    /\ sPc = "idle"
    /\ listener = "unset"
    /\ task = 1
    /\ phase = "start"
    /\ wait = NoWait
    /\ consent = NoConsent
    /\ ctxDone = FALSE
    /\ page = "noCmp"
    /\ api = "none"
    /\ started = <<>>
    /\ runErr = "none"
    /\ reads = NoReads
    /\ expCookie = NilCookie
    /\ now = 1
    /\ expResult = NoResult
    /\ domains \in 1..MaxDomains
    /\ fileHandle = "unset"
    /\ progressFile = [exists |-> FALSE, data |-> <<>>]
    /\ outFile = <<>>
    /\ wbuf = <<>>
    /\ pc = "start"
    /\ index = 0
    /\ lastProcessedIndex = 0
    /\ runCookies = <<>>
    /\ ci = 0
    /\ runNo = 1
    /\ processed = <<>>
    /\ saved = <<>>
    /\ loads = <<>>
    /\ prev = NoPrev

VisitsNext ==
    \/ \E err \in BOOLEAN : OpenOutput(err)
    \/ LoadProgress
    \/ SkipDomain
    \/ VisitStart
    \/ \E ok \in BOOLEAN : Listen(ok)
    \/ DeferListenerClose
    \/ \E err \in RunErrors, cs \in SeqsUpTo(RunCookieSet, MaxRunCookies) : VisitReturn(err, cs)
    \/ VisitPanic
    \/ WriteRow
    \/ FlushRow
    \/ SkipExpired
    \/ SaveCreate
    \/ SaveWrite
    \/ CancelCtx
    \/ ResetCreate
    \/ ResetWrite
    \/ Restart

---------------------------------------------------------------------------
(* writeRow of the selenium runner (part_002): the condition code of a row *)

\* what displayStatusJS yields after the reload, "noStatus" when it yields
\* nothing
DisplayStatuses == {"visible", "hidden", "disabled", "noStatus"}

\* the arguments of writeRow: tcString, and tcStringAfterReload and
\* statusAfter in the fields apiTcString and eventStatusAfterRL
WriteRowInputs ==
    [tcString : SeqsUpTo(StrChars, MaxStrLen), apiTcString : SeqsUpTo(StrChars, MaxStrLen),
     eventStatusBeforeRL : {""}, eventStatusAfterRL : DisplayStatuses]

\* the chain with the first test asking for a visible banner
ConditionVisibleFirst(statusAfter, tcString, tcStringAfterReload) ==
    IF statusAfter = "visible" /\ tcString = SplitFirst(tcStringAfterReload, ".")
    THEN "1"
    ELSE IF statusAfter # "visible" /\ tcString = SplitFirst(tcStringAfterReload, ".")
    THEN "2"
    ELSE IF statusAfter # "visible" /\ tcString # SplitFirst(tcStringAfterReload, ".")
    THEN "3"
    ELSE "0"

\* writeRow: the if-else chain that chooses the second column of the row
Condition(statusAfter, tcString, tcStringAfterReload) ==
    IF statusAfter # "visible" /\ tcString = SplitFirst(tcStringAfterReload, ".")
    THEN "1"
    ELSE IF statusAfter = "visible" /\ tcString = SplitFirst(tcStringAfterReload, ".")
    THEN "2"
    ELSE IF statusAfter # "visible" /\ tcString # SplitFirst(tcStringAfterReload, ".")
    THEN "3"
    ELSE "0"

\* writeRow: the row is written and flushed
writeRow ==
    /\ ~rowFlags.written
    /\ outFile' = Append(outFile,
                     [dom |-> 0,
                      Condition |-> Condition(runResult.eventStatusAfterRL,
                                              runResult.tcString, runResult.apiTcString),
                      FinalTCString |-> runResult.apiTcString,
                      GeneratedTCString |-> runResult.tcString])
    /\ rowFlags' = [rowFlags EXCEPT !.written = TRUE]
    /\ UNCHANGED <<storeVars, reqVars, gvlVars, metaVars, batchVars, sessVars, expVars, runResult,
                   fileHandle, domains, progressFile, wbuf, pc, index, lastProcessedIndex,
                   runCookies, ci, runNo, processed, saved, loads, prev>>

\* navigateAndCheckStatus has read the status and the string after the reload
WriteRowInit ==
    /\ cookies = <<>>
    /\ mu = 0
    /\ wg = 0
    /\ cb = [p \in Callbacks |-> IdleCallback]
    /\ nSetCookies = 0
    /\ runPc = "browse"
    /\ retCookies = NotRead
    /\ attached = <<>>
    /\ upserts = {}
    /\ reqHost = <<>>
    /\ runResult \in WriteRowInputs
    /\ rowFlags = NoRowFlags
    /\ ping = NoPing
    /\ tcData = NoTcData
    /\ proxies = <<>>
    /\ browsers = <<>>
    /\ stores = <<>>
    /\ cookieDomain = <<>>
    /\ vendorDomain = <<>>
    /\ domainMatched = NotMatched
    /\ sPc = "idle"
    /\ listener = "unset"
    /\ task = 1
    /\ phase = "start"
    /\ wait = NoWait
    /\ consent = NoConsent
    /\ ctxDone = FALSE
    /\ page = "noCmp"
    /\ api = "none"
    /\ started = <<>>
    /\ runErr = "none"
    /\ reads = NoReads
    /\ expCookie = NilCookie
    /\ now = 1
    /\ expResult = NoResult
    /\ domains = 0
    /\ fileHandle = "open"
    /\ progressFile = [exists |-> FALSE, data |-> <<>>]
    /\ outFile = <<>>
    /\ wbuf = <<>>
    /\ pc = "idle"
    /\ index = 0
    /\ lastProcessedIndex = 0
    /\ runCookies = <<>>
    /\ ci = 0
    /\ runNo = 0
    /\ processed = <<>>
    /\ saved = <<>>
    /\ loads = <<>>
    /\ prev = NoPrev

WriteRowNext ==
    \/ writeRow

---------------------------------------------------------------------------
(* The driver sessions of the selenium runner (part_002): main creates one per
   domain, defers its Quit to the end of main, and the helpers quit it when a
   call fails *)

\* the driver calls of an iteration, made by setPageLoadTimeout,
\* navigateWebsite, executeScriptAndQuitOnError, generateAndSetTCData and
\* navigateAndCheckStatus: when one fails, the helper calls driver.Quit() and
\* main ends the iteration with `continue`
SeleniumSteps ==
    << "SetImplicitWaitTimeout", "SetPageLoadTimeout", "Get", "cmpIDJS", "cmpVerJS",
       "gvlVerJS", "cookieJS", "localStorageJS", "Get", "displayStatusJS", "tcStringJS" >>

\* a call on the driver of domain i, as the log records it
DriverCall(op, i) == [op |-> op, i |-> i]

\* the sessions created so far, in order: for each, main has deferred a Quit
Deferred == SelectSeq(started, LAMBDA e : e.op = "NewRemote")

\* selenium.NewRemote: a session for the domain and `defer driver.Quit()`, or
\* an error and `continue`
NewRemote(ok) ==
    /\ pc = "loop"
    /\ index < domains
    /\ started' = IF ok THEN Append(started, DriverCall("NewRemote", index)) ELSE started
    /\ browsers' = IF ok THEN [browsers EXCEPT ![index] = "alive"] ELSE browsers
    /\ pc' = IF ok THEN "steps" ELSE "loop"
    /\ index' = IF ok THEN index ELSE index + 1
    /\ task' = 1
    /\ UNCHANGED <<storeVars, reqVars, gvlVars, derivedVars, metaVars, proxies, stores, expVars,
                   sPc, listener, phase, wait, consent, ctxDone, page, api, runErr, reads,
                   fileHandle, domains, progressFile, outFile, wbuf, lastProcessedIndex,
                   runCookies, ci, runNo, processed, saved, loads, prev>>

\* one call of SeleniumSteps: when it fails its helper quits the driver and
\* main goes to the next domain; writeRow follows the last one
SeleniumStep(ok) ==
    /\ pc = "steps"
    /\ task <= Len(SeleniumSteps)
    /\ started' = IF ok THEN started ELSE Append(started, DriverCall("Quit", index))
    /\ browsers' = IF ok THEN browsers ELSE [browsers EXCEPT ![index] = "closed"]
    /\ task' = IF ok THEN task + 1 ELSE 1
    /\ pc' = IF ok THEN "steps" ELSE "loop"
    /\ index' = IF ok THEN index ELSE index + 1
    /\ UNCHANGED <<storeVars, reqVars, gvlVars, derivedVars, metaVars, proxies, stores, expVars,
                   sPc, listener, phase, wait, consent, ctxDone, page, api, runErr, reads,
                   fileHandle, domains, progressFile, outFile, wbuf, lastProcessedIndex,
                   runCookies, ci, runNo, processed, saved, loads, prev>>

\* the end of an iteration without failure: driver.Close(), which closes the
\* window; the session is left to the deferred Quit
DriverClose ==
    /\ pc = "steps"
    /\ task = Len(SeleniumSteps) + 1
    /\ started' = Append(started, DriverCall("Close", index))
    /\ browsers' = [browsers EXCEPT ![index] = "windowClosed"]
    /\ task' = 1
    /\ pc' = "loop"
    /\ index' = index + 1
    /\ UNCHANGED <<storeVars, reqVars, gvlVars, derivedVars, metaVars, proxies, stores, expVars,
                   sPc, listener, phase, wait, consent, ctxDone, page, api, runErr, reads,
                   fileHandle, domains, progressFile, outFile, wbuf, lastProcessedIndex,
                   runCookies, ci, runNo, processed, saved, loads, prev>>

\* main returns: the deferred calls run, the last deferred first
MainReturns ==
    /\ pc = "loop"
    /\ index = domains
    /\ ci' = Len(Deferred)
    /\ pc' = "deferred"
    /\ UNCHANGED <<storeVars, otherVars, sessVars, expVars, fileHandle, domains,
                   progressFile, outFile, wbuf, index, lastProcessedIndex, runCookies,
                   runNo, processed, saved, loads, prev>>

\* a deferred driver.Quit()
DeferredQuit ==
    /\ pc = "deferred"
    /\ ci > 0
    /\ started' = Append(started, DriverCall("Quit", Deferred[ci].i))
    /\ browsers' = [browsers EXCEPT ![Deferred[ci].i] = "closed"]
    /\ ci' = ci - 1
    /\ UNCHANGED <<storeVars, reqVars, gvlVars, derivedVars, metaVars, proxies, stores, expVars,
                   sPc, listener, task, phase, wait, consent, ctxDone, page, api, runErr,
                   reads, fileHandle, domains, progressFile, outFile, wbuf, pc, index,
                   lastProcessedIndex, runCookies, runNo, processed, saved, loads, prev>>

\* every deferred call has run: the process ends
MainDone ==
    /\ pc = "deferred"
    /\ ci = 0
    /\ pc' = "done"
    /\ UNCHANGED <<storeVars, otherVars, sessVars, expVars, fileHandle, domains,
                   progressFile, outFile, wbuf, index, lastProcessedIndex, runCookies, ci,
                   runNo, processed, saved, loads, prev>>

\* main has started the driver service, read the domains and created the
\* results file
SeleniumInit ==
    /\ cookies = <<>>
    /\ mu = 0
    /\ wg = 0
    /\ cb = [p \in Callbacks |-> IdleCallback]
    /\ nSetCookies = 0
    /\ runPc = "browse"
    /\ retCookies = NotRead
    /\ attached = <<>>
    /\ upserts = {}
    /\ reqHost = <<>>
    /\ runResult = NoRunResult
    /\ rowFlags = NoRowFlags
    /\ ping = NoPing
    /\ tcData = NoTcData
    /\ proxies = <<>>
    /\ browsers = [i \in 0..(MaxDomains - 1) |-> "none"]
    /\ stores = <<>>
    /\ cookieDomain = <<>>
    /\ vendorDomain = <<>>
    /\ domainMatched = NotMatched
    /\ sPc = "idle"
    /\ listener = "unset"
    /\ task = 1
    /\ phase = "start"
    /\ wait = NoWait
    /\ consent = NoConsent
    /\ ctxDone = FALSE
    /\ page = "noCmp"
    /\ api = "none"
    /\ started = <<>>
    /\ runErr = "none"
    /\ reads = NoReads
    /\ expCookie = NilCookie
    /\ now = 1
    /\ expResult = NoResult
    /\ domains \in 1..MaxDomains
    /\ fileHandle = "open"
    /\ progressFile = [exists |-> FALSE, data |-> <<>>]
    /\ outFile = <<>>
    /\ wbuf = <<>>
    /\ pc = "loop"
    /\ index = 0
    /\ lastProcessedIndex = 0
    /\ runCookies = <<>>
    /\ ci = 0
    /\ runNo = 0
    /\ processed = <<>>
    /\ saved = <<>>
    /\ loads = <<>>
    /\ prev = NoPrev

SeleniumNext ==
    \/ \E ok \in BOOLEAN : NewRemote(ok)
    \/ \E ok \in BOOLEAN : SeleniumStep(ok)
    \/ DriverClose
    \/ MainReturns
    \/ DeferredQuit
    \/ MainDone

---------------------------------------------------------------------------
(* The cookie classifier (reference-gvl.go): domainMatches *)

\* strings.Split(s, c) for a separator of one character: the pieces of s
\* between the separators, <<s>> when s has none
RECURSIVE Split(_, _)
Split(s, c) ==
    LET m == Index(s, c)
    IN  IF m < 0 THEN <<s>>
        ELSE <<SubSeq(s, 1, m)>> \o Split(SubSeq(s, m + 2, Len(s)), c)

\* the characters of a domain: two of the alphabet and the separator
DomainChars == {"a", "b", "."}

\* the loop of domainMatches comparing the segments from the left
domainMatchesFromLeft(cDomain, vDomain) ==
    LET vendorSplit == Split(vDomain, ".")
        cookieSplit == Split(cDomain, ".")
        smallerDomain == IF Len(cookieSplit) < Len(vendorSplit) THEN cookieSplit
                         ELSE vendorSplit
        largerDomain  == IF Len(cookieSplit) < Len(vendorSplit) THEN vendorSplit
                         ELSE cookieSplit
    IN  \A i \in 0..(Len(smallerDomain) - 1) : smallerDomain[i + 1] = largerDomain[i + 1]

\* domainMatches: false at the first i whose segments differ, true when the
\* loop ends (slices are indexed from 0 in the source, sequences from 1 here)
domainMatches(cDomain, vDomain) ==
    LET vendorSplit == Split(vDomain, ".")
        cookieSplit == Split(cDomain, ".")
        smallerDomain == IF Len(cookieSplit) < Len(vendorSplit) THEN cookieSplit
                         ELSE vendorSplit
        largerDomain  == IF Len(cookieSplit) < Len(vendorSplit) THEN vendorSplit
                         ELSE cookieSplit
    IN  \A i \in 0..(Len(smallerDomain) - 1) :
            smallerDomain[(Len(smallerDomain) - 1 - i) + 1]
                = largerDomain[(Len(largerDomain) - 1 - i) + 1]

\* the indices the loop of domainMatches may use, each with the length of the
\* slice it indexes
domainMatchesIndices(cDomain, vDomain) ==
    LET vendorSplit == Split(vDomain, ".")
        cookieSplit == Split(cDomain, ".")
        smallerDomain == IF Len(cookieSplit) < Len(vendorSplit) THEN cookieSplit
                         ELSE vendorSplit
        largerDomain  == IF Len(cookieSplit) < Len(vendorSplit) THEN vendorSplit
                         ELSE cookieSplit
    IN  { <<Len(smallerDomain) - 1 - i, Len(smallerDomain)>> :
              i \in 0..(Len(smallerDomain) - 1) }
        \cup { <<Len(largerDomain) - 1 - i, Len(largerDomain)>> :
                   i \in 0..(Len(smallerDomain) - 1) }

\* a call domainMatches(cookieDomain, vendorDomain)
CallDomainMatches ==
    /\ ~domainMatched.called
    /\ domainMatched' =
         [called |-> TRUE,
          value |-> domainMatches(cookieDomain, vendorDomain),
          inRange |-> \A x \in domainMatchesIndices(cookieDomain, vendorDomain) :
                          0 <= x[1] /\ x[1] < x[2]]
    /\ UNCHANGED <<storeVars, reqVars, derivedVars, metaVars, batchVars, sessVars, expVars,
                   mainVars, cookieDomain, vendorDomain>>

DomainMatchInit ==
    /\ cookies = <<>>
    /\ mu = 0
    /\ wg = 0
    /\ cb = [p \in Callbacks |-> IdleCallback]
    /\ nSetCookies = 0
    /\ runPc = "browse"
    /\ retCookies = NotRead
    /\ attached = <<>>
    /\ upserts = {}
    /\ reqHost = <<>>
    /\ runResult = NoRunResult
    /\ rowFlags = NoRowFlags
    /\ ping = NoPing
    /\ tcData = NoTcData
    /\ proxies = <<>>
    /\ browsers = <<>>
    /\ stores = <<>>
    /\ cookieDomain \in SeqsUpTo(DomainChars, MaxDomainLen)
    /\ vendorDomain \in SeqsUpTo(DomainChars, MaxDomainLen)
    /\ domainMatched = NotMatched
    /\ sPc = "idle"
    /\ listener = "unset"
    /\ task = 1
    /\ phase = "start"
    /\ wait = NoWait
    /\ consent = NoConsent
    /\ ctxDone = FALSE
    /\ page = "noCmp"
    /\ api = "none"
    /\ started = <<>>
    /\ runErr = "none"
    /\ reads = NoReads
    /\ expCookie = NilCookie
    /\ now = 1
    /\ expResult = NoResult
    /\ domains = 0
    /\ fileHandle = "unset"
    /\ progressFile = [exists |-> FALSE, data |-> <<>>]
    /\ outFile = <<>>
    /\ wbuf = <<>>
    /\ pc = "idle"
    /\ index = 0
    /\ lastProcessedIndex = 0
    /\ runCookies = <<>>
    /\ ci = 0
    /\ runNo = 0
    /\ processed = <<>>
    /\ saved = <<>>
    /\ loads = <<>>
    /\ prev = NoPrev

DomainMatchNext ==
    \/ CallDomainMatches

---------------------------------------------------------------------------
(* The cookie classifier (reference-gvl.go): main, createCSVWriter,
   processCookie and the three result files *)

\* strings.ReplaceAll(s, " ", "")
RemoveSpaces(s) == SelectSeq(s, LAMBDA c : c # " ")

\* the rows of gvl_data.csv: for each vendor the domains of the columns 4 and
\* 7 and the cookie names of column 5, as extractVendorData splits them
GvlVendors ==
    << [id |-> 1, domains |-> << <<"t", ".", "e", "x">> >>, cookies |-> << <<"i", "d">> >>],
       [id |-> 2, domains |-> << <<"e", "x">> >>, cookies |-> << <<"u", "i", "d">> >>] >>

\* the records of deny_all_vendors.csv: domain (column 1) and name (column 2)
ClassifierCookies ==
    [domain : { <<"t", ".", "e", "x">>, <<"t", " ", ".", "e", "x">>, <<"u", ".", "o", "r", "g">> },
     name : { <<"i", "d">>, <<"u", "i", "d">>, <<"z">> }]

\* findDomainMatch: some domain of the vendor matches
findDomainMatch(cDomain, vendorDomains) ==
    \E k \in 1..Len(vendorDomains) : domainMatches(cDomain, vendorDomains[k])

\* processCookie, the loop over the vendors from vendor k on: it ends at the
\* first vendor with a matching domain that lists the name, for which
\* writeMatchResult is called; partialMatchVendor is the last vendor with a
\* matching domain
RECURSIVE VendorLoop(_, _, _, _)
VendorLoop(cookie, k, partialMatch, partialMatchVendor) ==
    IF k > Len(GvlVendors)
    THEN [foundMatch |-> FALSE, partialMatch |-> partialMatch, vendor |-> partialMatchVendor]
    ELSE LET vendor == GvlVendors[k]
             domainMatchedNow == findDomainMatch(RemoveSpaces(cookie.domain), vendor.domains)
             listed == \E i \in 1..Len(vendor.cookies) :
                           RemoveSpaces(cookie.name) = vendor.cookies[i]
         IN  IF domainMatchedNow /\ listed
             THEN [foundMatch |-> TRUE, partialMatch |-> TRUE, vendor |-> vendor.id]
             ELSE VendorLoop(cookie, k + 1, partialMatch \/ domainMatchedNow,
                             IF domainMatchedNow THEN vendor.id ELSE partialMatchVendor)

\* processCookie and writePartialOrUnmatchedResult: the writer that gets the
\* row of the cookie
processCookie(cookie) ==
    LET r == VendorLoop(cookie, 1, FALSE, 0)
    IN  [output |-> IF r.foundMatch THEN "matched"
                    ELSE IF r.partialMatch THEN "partial" ELSE "unmatched",
         vendor |-> r.vendor]

\* the three writers or files without rows
NoRows == [matched |-> <<>>, partial |-> <<>>, unmatched |-> <<>>]

\* csv.Writer.Flush: the buffered rows go to the file if it is open; the
\* write to a closed file fails and Flush drops the error
FlushTo(file, buffered, handle) == IF handle = "open" THEN file \o buffered ELSE file

\* main: the three calls of createCSVWriter.  Each creates its file and
\* returns a writer on it after its deferred file.Close() has run
CreateCSVWriters ==
    /\ pc = "start"
    /\ outFile' = NoRows
    /\ wbuf' = NoRows
    /\ fileHandle' = "closed"
    /\ ci' = 0
    /\ pc' = "cookies"
    /\ UNCHANGED <<storeVars, otherVars, sessVars, expVars, domains, progressFile, index,
                   lastProcessedIndex, runCookies, runNo, processed, saved, loads, prev>>

\* main: processCookie for the next record; its row is written into the
\* buffer of one writer (the few rows here never fill a buffer)
ProcessCookie ==
    /\ pc = "cookies"
    /\ ci < Len(runCookies)
    /\ LET r == processCookie(runCookies[ci + 1])
       IN  wbuf' = [wbuf EXCEPT ![r.output] = Append(@, [cookie |-> ci + 1, vendor |-> r.vendor])]
    /\ ci' = ci + 1
    /\ UNCHANGED <<storeVars, otherVars, sessVars, expVars, fileHandle, domains,
                   progressFile, outFile, pc, index, lastProcessedIndex, runCookies, runNo,
                   processed, saved, loads, prev>>

\* main returns: the three deferred Flush calls
ClassifierReturns ==
    /\ pc = "cookies"
    /\ ci = Len(runCookies)
    /\ outFile' = [f \in {"matched", "partial", "unmatched"} |->
                      FlushTo(outFile[f], wbuf[f], fileHandle)]
    /\ wbuf' = NoRows
    /\ pc' = "done"
    /\ UNCHANGED <<storeVars, otherVars, sessVars, expVars, fileHandle, domains,
                   progressFile, index, lastProcessedIndex, runCookies, ci, runNo,
                   processed, saved, loads, prev>>

\* main has read the cookie records and the vendor list
ClassifierInit ==
    /\ cookies = <<>>
    /\ mu = 0
    /\ wg = 0
    /\ cb = [p \in Callbacks |-> IdleCallback]
    /\ nSetCookies = 0
    /\ runPc = "browse"
    /\ retCookies = NotRead
    /\ attached = <<>>
    /\ upserts = {}
    /\ reqHost = <<>>
    /\ runResult = NoRunResult
    /\ rowFlags = NoRowFlags
    /\ ping = NoPing
    /\ tcData = NoTcData
    /\ proxies = <<>>
    /\ browsers = <<>>
    /\ stores = <<>>
    /\ cookieDomain = <<>>
    /\ vendorDomain = <<>>
    /\ domainMatched = NotMatched
    /\ sPc = "idle"
    /\ listener = "unset"
    /\ task = 1
    /\ phase = "start"
    /\ wait = NoWait
    /\ consent = NoConsent
    /\ ctxDone = FALSE
    /\ page = "noCmp"
    /\ api = "none"
    /\ started = <<>>
    /\ runErr = "none"
    /\ reads = NoReads
    /\ expCookie = NilCookie
    /\ now = 1
    /\ expResult = NoResult
    /\ domains = 0
    /\ fileHandle = "unset"
    /\ progressFile = [exists |-> FALSE, data |-> <<>>]
    /\ outFile = <<>>
    /\ wbuf = <<>>
    /\ pc = "start"
    /\ index = 0
    /\ lastProcessedIndex = 0
    /\ runCookies \in SeqsUpTo(ClassifierCookies, MaxGvlCookies)
    /\ ci = 0
    /\ runNo = 0
    /\ processed = <<>>
    /\ saved = <<>>
    /\ loads = <<>>
    /\ prev = NoPrev

ClassifierNext ==
    \/ CreateCSVWriters
    \/ ProcessCookie
    \/ ClassifierReturns
Spec == Init /\ [][Next]_vars

SpecStore == StoreInit /\ [][StoreNext]_vars

SpecStore_p0 == StoreInit /\ [][StoreNext_p0]_vars

SpecExpired == ExpInit /\ [][ExpNext]_vars

SpecProgress == ProgressInit /\ [][ProgressNext]_vars

SpecRequest == RequestInit /\ [][RequestNext]_vars

SpecSession == SessionInit /\ [][SessionNext]_vars

SpecSession_p0 == SessionInit /\ [][SessionNext_p0]_vars

SpecRows == RowsInit /\ [][RowsNext]_vars

SpecDerived == DerivedInit /\ [][DerivedNext]_vars

SpecMetadata == MetadataInit /\ [][MetadataNext]_vars

SpecBatch == BatchInit /\ [][BatchNext]_vars

SpecUpsert == UpsertInit /\ [][UpsertNext]_vars

SpecUpsert_p0 == UpsertInit /\ [][UpsertNext_p0]_vars

SpecVisits == VisitsInit /\ [][VisitsNext]_vars

SpecWriteRow == WriteRowInit /\ [][WriteRowNext]_vars

SpecSelenium == SeleniumInit /\ [][SeleniumNext]_vars

SpecDomainMatch == DomainMatchInit /\ [][DomainMatchNext]_vars

SpecClassifier == ClassifierInit /\ [][ClassifierNext]_vars

\* the goroutine of run keeps running: the evaluations end with the context
\* at the latest, and the sleep returns
SpecSessionLive == SessionInit /\ [][SessionNext]_vars /\ WF_vars(SessionStep)

\* as SpecSessionLive, and time passes: the deadline of timeoutCtx arrives
SpecSessionTimed ==
    SessionInit /\ [][SessionNext]_vars /\ WF_vars(SessionStep) /\ WF_vars(CtxTimeout)

---------------------------------------------------------------------------
(* Claims on the cookie store *)

EntriesOf(id) == { i \in 1..Len(cookies) : Identity(cookies[i]) = id }

\* C1: after any sequence of updateCookieList calls the store holds exactly
\* one entry per (name, domain) that was ever upserted, no entry for any
\* other identity, and the entry's value is that of the most recent upsert
\* of its identity.
OneEntryPerIdentity ==
    /\ \A u \in upserts :
         /\ Cardinality(EntriesOf(Identity(u))) = 1
         /\ \A i \in EntriesOf(Identity(u)) : cookies[i].value = u.value
    /\ \A i \in 1..Len(cookies) : \E u \in upserts : Identity(u) = Identity(cookies[i])

\* C1, its case: an upsert has just replaced the entry of an identity already
\* in the store (id=2 over id), next to the entry of another identity
ReplacedByUpsert ==
    \E p \in Callbacks :
        /\ cb[p].pc = "unlock"
        /\ cb[p].found
        /\ cb[p].newCookie.value = 2
        /\ cookies[cb[p].index].value = 2
        /\ Len(cookies) = 2
        /\ nSetCookies = 3

\* C2: under every interleaving of the upserts of concurrent response
\* callbacks the slice never holds two entries of one (name, domain), and no
\* completed upsert is lost: the entry of every upserted identity carries the
\* value of the latest upsert.  Stated of the callback of part_000.
UpsertsAtomic_p0 ==
    /\ \A i, j \in 1..Len(cookies) :
         i # j => Identity(cookies[i]) # Identity(cookies[j])
    /\ \A u \in upserts :
         \E i \in 1..Len(cookies) :
            Identity(cookies[i]) = Identity(u) /\ cookies[i].value = u.value

\* C3: every access to the cookie slice is made under the mutex, so that in no
\* state one goroutine is at a read of the slice while another is at a write
\* of it.  The reads outside updateCookieList are the range loop of OnRequest
\* and the return statement of run; the state excluded here is the return
\* statement about to read while a callback is about to store.
NoReadWhileStoring ==
    ~ /\ runPc = "return"
      /\ \E p \in Callbacks : cb[p].pc = "store"

---------------------------------------------------------------------------
(* Claim on isCookieExpired *)

\* C4: isCookieExpired(c) is true if and only if the expiry of c is the zero
\* value, or is at or before the time of the call (expiry <= now, the equal
\* instant included), or the max-age of c is negative.
ExpiredIffZeroOrPastOrNegative ==
    (expResult.variant # "none" /\ ~expCookie.nil) =>
        (expResult.value <=>
            \/ IsZero(expCookie.expires)
            \/ expCookie.expires <= now
            \/ expCookie.maxAge < 0)

---------------------------------------------------------------------------
(* Claims on the batch loop and the checkpoint *)

\* the indices from, from+1, ..., to-1 in order
Indices(from, to) == [j \in 1..(to - from) |-> from + j - 1]

\* the rows of the output file that process run r wrote for domain d
RowsOf(r, d) == { k \in 1..Len(outFile) : outFile[k].run = r /\ outFile[k].dom = d }

\* main is past loadProgress and has not ended
InLoop == pc \in {"loop", "rows", "flush", "saveWrite", "cancelCtx", "resetWrite"}

\* the checkpoints of this run in the order they were persisted: the one
\* found at the start, then the arguments of the completed saveProgress calls
Persisted == <<loadProgress(loads[1])>> \o saved

\* C5: once the processing of domain i has finished (saveProgress(i+1) has
\* returned) the checkpoint file holds i+1, whatever checkpoint the run
\* started from; and the checkpoints persisted during one run never decrease
\* until the final reset.
CheckpointMonotone ==
    /\ pc = "cancelCtx" =>
         /\ progressFile = [exists |-> TRUE, data |-> Itoa(index + 1)]
         /\ loadProgress(progressFile) = index + 1
    /\ (InLoop \/ pc = "done") =>
         \A j \in 1..(Len(Persisted) - 1) :
            \/ Persisted[j] <= Persisted[j + 1]
            \/ pc = "done" /\ j + 1 = Len(Persisted)

\* C5, its case: a run resumed from checkpoint 1 has finished domain 1
ResumedDomainFinished ==
    /\ pc = "cancelCtx"
    /\ lastProcessedIndex = 1
    /\ index = 1
    /\ saved = <<2>>
    /\ progressFile.data = <<"2">>

\* C6: with no checkpoint file, a run over n domains processes the domains
\* 0..n-1 from index 0, the checkpoints persisted are 1, 2, ..., n in that
\* order and then 0; after a clean completion the checkpoint file holds 0.
FreshRunCountsUp ==
    /\ ((InLoop \/ pc = "done") /\ ~loads[1].exists) =>
         /\ \A j \in 1..Len(saved) : saved[j] = IF j <= domains THEN j ELSE 0
         /\ \A j \in 1..Len(processed) : processed[j] = j - 1
         /\ pc = "done" => /\ processed = Indices(0, domains)
                           /\ Len(saved) = domains + 1
    /\ pc = "done" => /\ progressFile = [exists |-> TRUE, data |-> <<"0">>]
                      /\ loadProgress(progressFile) = 0

\* C6, its case: the list [a.example, b.example] without checkpoint file, done
TwoDomainsDone ==
    /\ pc = "done"
    /\ ~loads[1].exists
    /\ domains = 2
    /\ processed = <<0, 1>>
    /\ saved = <<1, 2, 0>>

\* C7 as stated: the second of two runs in immediate succession over the same
\* list processes zero domains.
SecondRunProcessesNothing ==
    (prev.kind = "clean" /\ pc = "done") => processed = <<>>

\* C7 as amended: the first run ends with the checkpoint reset to 0, so the
\* second run loads 0 and processes all n domains again, from index 0.
SecondRunStartsOver ==
    /\ (prev.kind = "clean" /\ (InLoop \/ pc = "done")) => lastProcessedIndex = 0
    /\ (prev.kind = "clean" /\ pc = "done") => processed = Indices(0, domains)

\* C7, its case: the second run over two domains has ended
SecondRunDone ==
    /\ runNo = 2
    /\ prev.kind = "clean"
    /\ pc = "done"
    /\ domains = 2
    /\ processed = <<0, 1>>

\* C8: the checkpoint is read once, at the start; a run that loads k over n
\* domains hands to run exactly the indices k, ..., n-1, each once and in list
\* order (none when k >= n), and ends with the checkpoint reset to 0.
ResumeFromCheckpoint ==
    /\ Len(loads) <= 1
    /\ (InLoop \/ pc = "done") =>
         /\ Len(loads) = 1
         /\ lastProcessedIndex = loadProgress(loads[1])
         /\ \A j \in 1..Len(processed) :
              /\ processed[j] = lastProcessedIndex + j - 1
              /\ processed[j] < domains
    /\ pc \in {"resetWrite", "done"} =>
         processed = Indices(lastProcessedIndex, domains)
    /\ pc = "done" => loadProgress(progressFile) = 0

\* C8, its case: a run that loaded 1 over two domains has ended
ResumedRunDone ==
    /\ pc = "done"
    /\ loads[1].data = <<"1">>
    /\ domains = 2
    /\ processed = <<1>>

\* C9: at every moment at which the process may be killed while domain N is
\* in progress, the window in which saveProgress has truncated the file and
\* not yet written included, loadProgress on the file yields N or N+1; so a
\* restart never processes again a domain below the one that was in progress.
InterruptedCheckpoint ==
    /\ InDomain => loadProgress(progressFile) \in {index, index + 1}
    /\ (prev.kind = "crashed" /\ prev.cur >= 0 /\ InLoop) =>
         lastProcessedIndex >= prev.cur

\* C10: the rows of domain i are written and flushed before the checkpoint
\* i+1 is persisted, and a crash makes at most the one domain that was in
\* progress have its rows written twice.
RowsBeforeCheckpoint ==
    /\ pc \in {"saveWrite", "cancelCtx"} =>
         /\ wbuf = <<>>
         /\ Cardinality(RowsOf(runNo, index)) =
              Cardinality({ k \in 1..Len(runCookies) : ~isCookieExpired(runCookies[k], now) })
    /\ (prev.kind = "crashed" /\ prev.cur >= 0 /\ pc # "crashed") =>
         \A d \in 0..(domains - 1) :
            (RowsOf(runNo, d) # {} /\ RowsOf(runNo - 1, d) # {}) => d = prev.cur

---------------------------------------------------------------------------
(* Claim on the checkpoint file *)

\* the text s is a decimal integer: an optional sign, then digits only
IsIntegerText(s) ==
    /\ s # <<>>
    /\ \A k \in 1..Len(s) : s[k] \in {"0", "1", "2", "3", "4", "5", "6", "7", "8", "9"}
                             \/ (k = 1 /\ s[k] \in {"-", "+"})
    /\ s \notin {<<"-">>, <<"+">>}

---------------------------------------------------------------------------
(* Claims on the proxy callbacks and the end of run *)

\* C12: a request whose destination host is the domain under test gets all
\* the cookies of the store attached; a request to another host gets none.
RequestsDecorated ==
    /\ reqHost = Domain => attached = cookies
    /\ (reqHost # <<>> /\ ~Contains(reqHost, Domain)) => attached = <<>>
\* C13: a Set-Cookie of a response is handed to the upsert if and only if the
\* host of the response is not the domain under test: the cookies of
\* first-party responses never enter the store.
ThirdPartyOnly ==
    [][\A p \in Callbacks, resp \in Responses :
          (~resp.nil /\ ~resp.first.nil /\ OnResponse(p, resp)) =>
              (cb'[p].pc = "lock" <=> ~Contains(resp.host, Domain))]_vars
\* C14: at the end of run the wait for the callbacks comes first, then the
\* graceful shutdown, then the close; once the shutdown has begun no response
\* callback is executing, whatever the interleaving.
QuietOnceShutdownBegan ==
    runPc \in {"shutdown", "serverClose", "returned"} =>
        /\ wg = 0
        /\ \A p \in Callbacks : cb[p].pc = "idle"

\* C15: when the wait for the callbacks has ended and no callback is running,
\* every cookie upserted so far is in the list that run returns.
ReturnedListHasAllUpserts ==
    (runPc = "shutdown" /\ wg = 0 /\ \A p \in Callbacks : cb[p].pc = "idle") =>
        /\ Len(retCookies.elems) = Len(cookies)
        /\ \A u \in upserts : \E i \in 1..Len(retCookies.elems) : retCookies.elems[i] = u
---------------------------------------------------------------------------
(* Claims on the browser session *)

\* C16: when net.Listen fails, run goes on without a listener and the process
\* neither panics nor exits.
BindFailureSurvived ==
    listener = "nil" => sPc # "panic"

\* the order of the steps of one domain as the specification gives it
StepOrder ==
    <<"navigate", "waitForTcfApi", "getTcEventStatus", "setConsent", "reload",
      "waitForTcfApi", "getTCstring", "getTcEventStatus", "blank">>

\* the steps started so far, the enabling of the network events left out
StepsStarted == SelectSeq(started, LAMBDA t : t # "enable")

\* a task of chromedp.Run has started and has not returned
InTask == sPc = "tasks" /\ phase # "start"

\* waitForTcfApi has returned n times at least
WaitsEnded(n) ==
    Cardinality({ k \in 1..Len(StepsStarted) :
                    StepsStarted[k] = "waitForTcfApi" /\ (k < Len(StepsStarted) \/ ~InTask) }) >= n

\* C17: the steps of one domain start in the order navigate, readiness wait,
\* event status, consent injection, reload, readiness wait, consent string,
\* event status, blank page, each after the one before it has returned; the
\* consent is not injected before the first wait has ended and the consent
\* string is not read before the reload.
StepsInOrder ==
    /\ Len(StepsStarted) <= Len(StepOrder)
    /\ \A k \in 1..Len(StepsStarted) : StepsStarted[k] = StepOrder[k]
    /\ InTask => Tasks[task] = started[Len(started)]
    /\ (consent # NoConsent \/ \E k \in 1..Len(started) : started[k] = "setConsent") =>
          WaitsEnded(1)
    /\ (reads.apiTcString # "" \/ \E k \in 1..Len(started) : started[k] = "getTCstring") =>
          /\ \E k \in 1..Len(started) : started[k] = "reload"
          /\ WaitsEnded(2)

\* C17, its case: every task has run and chromedp.Run has returned nil
AllStepsDone ==
    /\ sPc = "returned"
    /\ runErr = "none"
    /\ StepsStarted = StepOrder
    /\ consent.stored = 3
    /\ reads.apiTcString = "value"
\* waitForTcfApi is in its loop; it has returned and its locals are still there
InWaitLoop == sPc = "tasks" /\ phase = "loop"

WaitReturned == phase # "loop" /\ wait.probed

\* what holds of waitForTcfApi in every state
WaitLoopExits ==
    /\ (InWaitLoop /\ wait.probed) =>
          /\ ~wait.isApiReady \/ wait.cmpId = 0
          /\ wait.elapsed <= TCFTimeOut
    /\ WaitReturned =>
          \/ wait.isApiReady /\ wait.cmpId # 0
          \/ wait.elapsed > TCFTimeOut
    /\ (WaitReturned /\ started[Len(started)] = "waitForTcfApi") =>
          /\ sPc = "tasks"
          /\ runErr = "none"
          /\ Tasks[task] \in {"getTcEventStatus", "getTCstring"}

\* C18: waitForTcfApi makes one round of probes at least, leaves its loop
\* exactly when both probes have succeeded or the timeout has passed, returns
\* nil in both cases, so that the next task starts, and does not loop for ever.
WaitForTcfApiReturns ==
    /\ []WaitLoopExits
    /\ InWaitLoop ~> ~InWaitLoop

\* C18, its case: the wait has returned on its timeout without having seen
\* the consent API, and the session continues
WaitTimedOutWithoutApi ==
    /\ WaitReturned
    /\ ~wait.isApiReady
    /\ wait.elapsed > TCFTimeOut
    /\ sPc = "tasks"
    /\ Tasks[task] = "getTcEventStatus"
    /\ ~ctxDone
\* C19: on a page that never defines the consent API, and unless a browser
\* command fails, the consent record is built from cmpId 0, cmpVersion 1 and
\* vendor list version 189, the consent string is injected, the page is
\* reloaded and the sequence runs to its last step.
FallbackConsentInjected ==
    (page = "noCmp" /\ sPc = "returned" /\ runErr # "command") =>
        /\ consent = [cmpId |-> 0, cmpVer |-> DefaultCmpVersion,
                      gvlVer |-> DefaultGvlVersion, built |-> TRUE, stored |-> 3]
        /\ StepsStarted = StepOrder
        /\ runErr = "none"

\* C20: a script evaluation that fails, the context being alive, does not end
\* the sequence: every later step is still executed.
ScriptFailureTolerated ==
    (sPc = "returned" /\ ~ctxDone /\ runErr # "command") =>
        /\ runErr = "none"
        /\ StepsStarted = StepOrder

\* C21: once the deadline of the session context has passed, no later step
\* acts: the polling loop of waitForTcfApi does no further round, no consent
\* value is read or injected, and the values read before stay as they are.
NoStepAfterDeadline ==
    [][ctxDone => (wait' = wait /\ consent' = consent /\ reads' = reads)]_vars

\* with a listener bound, run comes back from runChromedp in every behaviour
\* in which its goroutine keeps running and the deadline arrives
BoundRunReturns == (sPc = "tasks") ~> (sPc = "returned")

\* C22: every call of run eventually returns control to the domain loop,
\* whatever the page does.
RunReturnsControl == (sPc = "listen") ~> (sPc = "returned")

\* C23: no failure that is local to one domain (the proxy address cannot be
\* bound, a browser command or a script of the injection fails) ends the
\* process.
LocalFailureSurvived == sPc \notin {"panic", "fatal"}

---------------------------------------------------------------------------
(* Claims on the output file *)

\* main has ended in log.Fatal without having touched anything
StoppedAtOpen ==
    fileHandle = "nil" =>
        /\ pc = "fatal"
        /\ processed = <<>>
        /\ saved = <<>>
        /\ wbuf = <<>>

\* C24: when the output file cannot be opened the run ends at once: no
\* domain is handed to run (so no proxy and no browser is started), and the
\* checkpoint file and the output file stay as they were.
FatalOpenStopsRun ==
    /\ []StoppedAtOpen
    /\ [][(fileHandle = "nil" \/ fileHandle' = "nil") =>
             (progressFile' = progressFile /\ outFile' = outFile)]_vars

\* the second start of the program fails to open the output file, a
\* checkpoint file and rows of the first run being there
FatalAtSecondStart ==
    /\ pc = "fatal"
    /\ fileHandle = "nil"
    /\ runNo = 2
    /\ domains > 0
    /\ progressFile.exists
    /\ Len(outFile) > 1

\* the rows process run r wrote for domain d, in the order of the file
RowSeq(r, d) == SelectSeq(outFile, LAMBDA row : row.run = r /\ row.dom = d)

\* the rows due for the cookies cs of domain d: one for each cookie that is
\* not expired, in the order of cs
RowsDue(r, d, cs) ==
    LET kept == SelectSeq(cs, LAMBDA c : ~isCookieExpired(c, now))
    IN  [k \in 1..Len(kept) |-> Row(r, d, kept[k])]

\* C25: for the domain being processed the output file holds exactly one row
\* for each cookie of the returned list handled so far that is not expired,
\* in list order, and none for an expired one; a row is in the file before
\* the next cookie is looked at (nothing waits in the writer), and when the
\* checkpoint is written the rows of the whole list are there.
OneRowPerLiveCookie ==
    /\ pc = "rows" =>
         /\ RowSeq(runNo, index) = RowsDue(runNo, index, SubSeq(runCookies, 1, ci))
         /\ wbuf = <<>>
    /\ pc = "flush" =>
         /\ RowSeq(runNo, index) = RowsDue(runNo, index, SubSeq(runCookies, 1, ci))
         /\ wbuf = <<Row(runNo, index, runCookies[ci + 1])>>
         /\ ~isCookieExpired(runCookies[ci + 1], now)
    /\ pc \in {"saveWrite", "cancelCtx"} =>
         /\ RowSeq(runNo, index) = RowsDue(runNo, index, runCookies)
         /\ wbuf = <<>>

\* a domain whose list held an expired and a live cookie is done
MixedListWritten ==
    /\ pc = "cancelCtx"
    /\ Len(runCookies) = 2
    /\ isCookieExpired(runCookies[1], now)
    /\ ~isCookieExpired(runCookies[2], now)
    /\ Len(RowSeq(runNo, index)) = 1

\* the part of s before its first ".": the prefix without "." that ends s or
\* is followed by "."
LeadingSegment(s) ==
    CHOOSE p \in { SubSeq(s, 1, n) : n \in 0..Len(s) } :
        /\ \A k \in 1..Len(p) : p[k] # "."
        /\ Len(p) = Len(s) \/ s[Len(p) + 1] = "."

\* C26: in a row the strings-agree column is true iff the injected and the
\* page-reported consent string agree up to their first "." (the whole string
\* without one), and the status-changed column is true iff the event status
\* before the reload differs from the one after it.
DerivedFieldsRight ==
    rowFlags.written =>
        /\ rowFlags.stringsEqual \in {"true", "false"}
        /\ rowFlags.stringsEqual = "true" <=>
             LeadingSegment(runResult.tcString) = LeadingSegment(runResult.apiTcString)
        /\ rowFlags.statusUpdated \in {"true", "false"}
        /\ rowFlags.statusUpdated = "true" <=>
             runResult.eventStatusBeforeRL # runResult.eventStatusAfterRL

\* two strings that differ after the first "." are reported as agreeing
AgreeOnLeadingSegment ==
    /\ rowFlags.written
    /\ rowFlags.stringsEqual = "true"
    /\ runResult.tcString = <<"a">>
    /\ runResult.apiTcString = <<"a", ".">>
    /\ rowFlags.statusUpdated = "true"

\* the header is the first row of the file and occurs nowhere else, and a
\* run that has opened the file finds or puts it there
OneHeaderFirst ==
    /\ Len(outFile) > 0 =>
         /\ outFile[1] = HeaderRow
         /\ \A k \in 2..Len(outFile) : outFile[k] # HeaderRow
    /\ fileHandle = "open" => Len(outFile) > 0

\* a step leaves the rows in the file as they are and adds rows at its end;
\* a header is added only at the start of a run, to an empty file
RowsOnlyAppended ==
    /\ Len(outFile) <= Len(outFile')
    /\ SubSeq(outFile', 1, Len(outFile)) = outFile
    /\ \A k \in (Len(outFile) + 1)..Len(outFile') :
         outFile'[k] = HeaderRow => (pc = "start" /\ outFile = <<>>)

ReloadAfterFullInjection ==
    (\E k \in 1..Len(started) : started[k] = "reload") =>
        /\ consent.built
        /\ Written(consent.stored) = ConsentLocations

\* the reload has started
ReloadStarted ==
    /\ \E k \in 1..Len(started) : started[k] = "reload"
    /\ consent.stored = 3
    /\ sPc = "tasks"

\* setConsent has ended with an error after its first injection script
PartlyInjected ==
    /\ sPc = "returned"
    /\ runErr = "script"
    /\ consent.stored = 1

\* the consent record built by a variant carries each field the ping reports
Faithful(variant) ==
    tcData.variant = variant =>
        /\ ping.cmpId # NoValue => tcData.CmpId = ping.cmpId
        /\ ping.cmpVersion # NoValue => tcData.CmpVersion = ping.cmpVersion
        /\ ping.gvlVersion # NoValue => tcData.VendorListVersion = ping.gvlVersion

\* the refactored chromedp runner carries every field
MetadataFaithful_p1 == Faithful("part_001")

\* C29: when the ping of the page reports cmpId, cmpVersion and gvlVersion,
\* the consent record that is encoded carries each of them in its own field;
\* a default stands in only for a field the page does not report.
MetadataFaithful ==
    /\ Faithful("part_001")
    /\ Faithful("part_000")
    /\ Faithful("part_002")

\* the proxies that listen on the proxy address, and the browsers alive
Listening == { i \in DOMAIN proxies : proxies[i].state = "listening" }

Alive == { i \in DOMAIN browsers : browsers[i] = "alive" }

\* the proxy and the browser of an earlier domain are shut down once those of
\* a later domain exist
ShutDownBeforeNext ==
    \A i, j \in DOMAIN proxies :
        (i < j /\ (proxies[j].state # "none" \/ browsers[j] # "none")) =>
            /\ proxies[i].state = "closed"
            /\ browsers[i] \in {"closed", "failed"}

\* the call of run for a domain starts on an empty slice
FreshStoreAtStart == pc = "listen" => stores[index] = <<>>

\* the rows of a domain hold cookies of its own visit only
OwnRowsOnly ==
    \A k \in 1..Len(outFile) :
        outFile[k] # HeaderRow => outFile[k].value = outFile[k].dom

\* C30: the domains are processed one after another: at most one proxy
\* listens on the proxy address and at most one browser is alive, the proxy and
\* the browser of a domain are shut down before those of the next one are
\* created, each call of run starts on an empty cookie slice, and no row of a
\* domain holds a cookie captured during the visit of another domain.
DomainsSequential ==
    /\ Cardinality(Listening) <= 1
    /\ Cardinality(Alive) <= 1
    /\ ShutDownBeforeNext
    /\ FreshStoreAtStart
    /\ OwnRowsOnly

\* both domains of a list were visited and each has a row in the file, and the
\* second call of run has started after the first captured cookies
TwoDomainsWritten ==
    /\ pc = "done"
    /\ domains = 2
    /\ \E k \in 1..Len(outFile) : outFile[k] # HeaderRow /\ outFile[k].dom = 0
    /\ \E k \in 1..Len(outFile) : outFile[k] # HeaderRow /\ outFile[k].dom = 1

\* the entry of the slice that the last upsert found
FoundEntry == cookies[cb[1].index]

\* the upsert of a variant replaces every mutable field of the entry it found
ReplacesAllFields(variant) ==
    (cb[1].pc = variant /\ cb[1].found) =>
        /\ FoundEntry.value = cb[1].newCookie.value
        /\ FoundEntry.path = cb[1].newCookie.path
        /\ FoundEntry.expires = cb[1].newCookie.expires
        /\ FoundEntry.maxAge = cb[1].newCookie.maxAge

\* updateCookieList of part_001 replaces them all
UpsertReplacesAllFields_p1 == ReplacesAllFields("stored")

\* C31: after the upsert of a cookie whose name and domain are in the store,
\* the value, the path, the expiry and the max-age of the stored entry are
\* those of the new cookie.
UpsertReplacesAllFields ==
    /\ ReplacesAllFields("stored")
    /\ ReplacesAllFields("stored_p0")

\* the hosts that have set a cookie called n without a Domain attribute
HostsSetting(n) ==
    { o.host : o \in { x \in upserts : x.cookie.name = n /\ x.cookie.domain = "" } }

\* the entries of the slice for the cookies called n without Domain attribute
HostOnlyEntries(n) ==
    { i \in 1..Len(cookies) : cookies[i].name = n /\ cookies[i].domain = "" }

\* C34: cookies of one name set by different third-party hosts are kept as
\* different entries of the store, one for each host, also when no Set-Cookie
\* header carries a Domain attribute: no host overwrites the entry of another.
OneEntryPerHost ==
    \A i \in CookieIdentities :
        Cardinality(HostOnlyEntries(i[1])) >= Cardinality(HostsSetting(i[1]))

\* the step is a call of updateCookieList
UpsertStep == nSetCookies' = nSetCookies + 1 /\ cb'[1].pc = "stored"

\* the positions of the slice that hold the identity x
PositionsOf(x) == { i \in 1..Len(cookies) : Identity(cookies[i]) = x }

\* C39: an upsert for an identity leaves the entries of the other identities
\* unchanged and in place; it appends one entry at the end when the identity
\* was absent, and keeps the length and the position of the identity when it
\* was present; the slice never gets shorter.
UpsertFrame ==
    [][UpsertStep =>
         LET newCookie == cb'[1].newCookie
             x         == Identity(newCookie)
         IN  /\ Len(cookies') >= Len(cookies)
             /\ \A i \in 1..Len(cookies) :
                    Identity(cookies[i]) # x => cookies'[i] = cookies[i]
             /\ PositionsOf(x) = {} => cookies' = Append(cookies, newCookie)
             /\ PositionsOf(x) # {} =>
                    /\ Len(cookies') = Len(cookies)
                    /\ \A i \in PositionsOf(x) : Identity(cookies'[i]) = x]_vars

\* an entry that is not the last one was replaced while another identity is
\* in the slice
ReplacedInTheMiddle ==
    /\ cb[1].pc = "stored"
    /\ cb[1].found
    /\ cb[1].index < Len(cookies)

\* after a call of run that returned, with or without an error of
\* chromedp.Run, the checkpoint is the index of the domain plus one
AdvancedAfterReturn ==
    pc = "cancelCtx" => loadProgress(progressFile) = index + 1

\* a domain was visited, its run failed, and the checkpoint went past it
FailedRunCounted == pc = "cancelCtx" /\ runErr # "none"

\* C32: after every domain the loop visits the checkpoint is one further,
\* whether the run of the domain completed or was aborted by an error or a
\* timeout: a domain whose run failed counts as processed, and a later resumed
\* run does not visit it again.
FailedDomainNotRetried ==
    /\ AdvancedAfterReturn
    /\ prev.kind = "panicked" =>
           \A k \in 1..Len(processed) : processed[k] # prev.cur

\* the injected string runChromedp returns: what setConsent assigned to
\* *tcString, "" when it did not get that far
ReturnedTcString == IF consent.built THEN "consentString" ELSE ""

\* C33: the injected consent string that run returns is not empty only if the
\* string was written to both cookies and both local-storage keys; it is empty
\* when one of the injection scripts failed.
InjectedStringOnlyIfStored ==
    (sPc = "returned" /\ ReturnedTcString # "") =>
        Written(consent.stored) = ConsentLocations

\* the banner is not shown after the reload
NotVisible == runResult.eventStatusAfterRL # "visible"

\* the injected string is the reported string up to its first "."
SameAsReportedCore == runResult.tcString = LeadingSegment(runResult.apiTcString)

\* C35: writeRow writes one row for the domain, and its condition code is 1
\* when the banner is not visible and the strings agree, 2 when it is visible
\* and they agree, 3 when it is not visible and they differ, 0 when it is
\* visible and they differ.
OneRowWithCondition ==
    rowFlags.written =>
        /\ Len(outFile) = 1
        /\ outFile[1].Condition = "1" <=> (NotVisible /\ SameAsReportedCore)
        /\ outFile[1].Condition = "2" <=> (~NotVisible /\ SameAsReportedCore)
        /\ outFile[1].Condition = "3" <=> (NotVisible /\ ~SameAsReportedCore)
        /\ outFile[1].Condition = "0" <=> (~NotVisible /\ ~SameAsReportedCore)

\* a row for a visible banner and a reported string with further segments
VisibleRowWritten ==
    /\ rowFlags.written
    /\ ~NotVisible
    /\ SameAsReportedCore
    /\ Len(runResult.apiTcString) > Len(runResult.tcString)

\* the positions of the log with the call op on the driver of domain i
CallsOf(op, i) == { p \in 1..Len(started) : started[p] = DriverCall(op, i) }

\* the domains whose session was created
Created == { i \in 0..(MaxDomains - 1) : CallsOf("NewRemote", i) # {} }

\* C36: every driver session that was created is quit exactly once, and before
\* the session of the next domain is created, on the path without failure and
\* on every path with one: no session is quit twice, and no two exist at once.
QuitOnceBeforeNext ==
    \A i \in Created :
        /\ Cardinality(CallsOf("Quit", i)) <= 1
        /\ pc = "done" => Cardinality(CallsOf("Quit", i)) = 1
        /\ \A j \in Created :
               i < j => \E q \in CallsOf("Quit", i) : \A p \in CallsOf("NewRemote", j) : q < p

\* the positions of the "." of s, and the k-th of them (0 and Len(s) + 1 stand
\* for the ends of s)
DotsOf(s) == { k \in 1..Len(s) : s[k] = "." }

NthDot(s, k) ==
    IF k = 0 THEN 0
    ELSE IF k > Cardinality(DotsOf(s)) THEN Len(s) + 1
    ELSE CHOOSE d \in DotsOf(s) : Cardinality({ e \in DotsOf(s) : e < d }) = k - 1

\* the labels of a domain: what stands between its ends and its "."
Labels(s) ==
    [k \in 1..(Cardinality(DotsOf(s)) + 1) |->
        SubSeq(s, NthDot(s, k - 1) + 1, NthDot(s, k) - 1)]

\* the list a is the end of the list b
IsSuffix(a, b) ==
    /\ Len(a) <= Len(b)
    /\ SubSeq(b, Len(b) - Len(a) + 1, Len(b)) = a

\* C38: domainMatches is symmetric, and true iff the labels of the domain with
\* fewer labels are the last labels of the other domain; it indexes no label
\* list outside its bounds.
DomainMatchesIsSuffixMatch ==
    domainMatched.called =>
        /\ domainMatched.value = domainMatches(vendorDomain, cookieDomain)
        /\ domainMatched.value =
              (\/ IsSuffix(Labels(cookieDomain), Labels(vendorDomain))
               \/ IsSuffix(Labels(vendorDomain), Labels(cookieDomain)))
        /\ domainMatched.inRange

\* a domain matched one with more labels
ProperSuffixMatched ==
    /\ domainMatched.called
    /\ domainMatched.value
    /\ Len(Labels(cookieDomain)) < Len(Labels(vendorDomain))

\* vendor v has a domain that matches the domain of the cookie
VendorDomainFits(cookie, v) ==
    \E k \in 1..Len(v.domains) : domainMatches(RemoveSpaces(cookie.domain), v.domains[k])

\* the output a cookie record belongs to
OutputOf(cookie) ==
    IF \E n \in 1..Len(GvlVendors) :
           /\ VendorDomainFits(cookie, GvlVendors[n])
           /\ \E i \in 1..Len(GvlVendors[n].cookies) :
                  RemoveSpaces(cookie.name) = GvlVendors[n].cookies[i]
    THEN "matched"
    ELSE IF \E n \in 1..Len(GvlVendors) : VendorDomainFits(cookie, GvlVendors[n])
    THEN "partial"
    ELSE "unmatched"

\* the rows of record k in the rows of an output
RecordRows(rows, k) == { p \in 1..Len(rows) : rows[p].cookie = k }

\* in the rows given, every record up to n has one row, in its own output
Classified(rows, n) ==
    \A k \in 1..n :
        \A f \in {"matched", "partial", "unmatched"} :
            Cardinality(RecordRows(rows[f], k)) = IF f = OutputOf(runCookies[k]) THEN 1 ELSE 0

\* the writers hold one row for each record processed, in the right output
OneRowPerRecord == pc = "cookies" => Classified(wbuf, ci)

\* C37: every cookie record gets one row in one of the three outputs: matched
\* if a vendor with a matching domain lists its name, else partial if a vendor
\* has a matching domain, else unmatched; and when the program has ended the
\* rows are in the three result files.
RowsInResultFiles ==
    /\ OneRowPerRecord
    /\ pc = "done" => Classified(outFile, Len(runCookies))
=============================================================================
